---- MODULE Spec2Model ----
(***************************************************************************)
(* Model of genjibot's entity cache (utils/cache.py), the autocomplete     *)
(* helpers and the map submission checks (cogs/__init__.py,                *)
(* cogs/playtest_submission.py).                                           *)
(*                                                                         *)
(* Python str values are sequences of one-character strings, so that       *)
(* casefold, substring search, str(int) and ordering are computed.         *)
(***************************************************************************)
EXTENDS Integers, Sequences, FiniteSets, TLC

\* ------------------------------------------------------------------ bounds
\* Largest number of entries the cache holds in all collections together.
MaxEntries == 2
\* Largest number of add_creator_ / remove_creator_ handlers in flight.
MaxTasks == 1
\* Longest list handed to one add_* call.
MaxBatch == 2
\* Largest number of collections that hold entries at the same time.
MaxLoaded == 1
\* Largest collection loaded for the autocomplete checks.
MaxLoad == 27
\* Longest text a member types as a map code.
MaxCodeLen == 7

\* ------------------------------------------------------- Python primitives
\* None, the value of a missing object.
None == [none |-> TRUE]

\* ord(c) for the characters the model uses.
CodePoint ==
    ("\n" :> 10) @@ (" " :> 32) @@ ("-" :> 45) @@
    ("*" :> 42) @@ ("0" :> 48) @@ ("1" :> 49) @@ ("2" :> 50) @@ ("3" :> 51) @@
    ("4" :> 52) @@ ("5" :> 53) @@ ("6" :> 54) @@ ("7" :> 55) @@ ("8" :> 56) @@
    ("9" :> 57) @@ ("A" :> 65) @@ ("B" :> 66) @@ ("O" :> 79) @@ ("\\" :> 92) @@
    ("_" :> 95) @@ ("a" :> 97) @@ ("b" :> 98) @@ ("o" :> 111)

Chars == DOMAIN CodePoint

\* chr(n) for the code points of Chars.
Chr(n) == CHOOSE c \in Chars : CodePoint[c] = n

\* str.casefold() of one ASCII character: A-Z go to a-z.
casefold_char(c) ==
    IF CodePoint[c] >= 65 /\ CodePoint[c] <= 90
    THEN (IF CodePoint[c] + 32 \in {CodePoint[d] : d \in Chars}
          THEN Chr(CodePoint[c] + 32) ELSE c)
    ELSE c

\* str.casefold()
casefold(str) == [i \in 1..Len(str) |-> casefold_char(str[i])]

\* needle in hay (Python substring test; "" is in every string).
Contains(hay, needle) ==
    \E i \in 0..(Len(hay) - Len(needle)) :
        SubSeq(hay, i + 1, i + Len(needle)) = needle

\* a < b for two Python str (lexicographic by code point).
RECURSIVE StrLess(_, _)
StrLess(a, b) ==
    IF b = <<>> THEN FALSE
    ELSE IF a = <<>> THEN TRUE
    ELSE IF a[1] # b[1] THEN CodePoint[a[1]] < CodePoint[b[1]]
    ELSE StrLess(Tail(a), Tail(b))

Digits == <<"0", "1", "2", "3", "4", "5", "6", "7", "8", "9">>

\* str(n) for a non-negative int.
RECURSIVE str(_)
str(n) ==
    IF n < 10 THEN <<Digits[n + 1]>>
    ELSE str(n \div 10) \o <<Digits[(n % 10) + 1]>>

\* x in seq (Python list membership).
In(x, seq) == \E i \in DOMAIN seq : seq[i] = x

\* list.remove(x): drops the first element equal to x.
ListRemove(seq, x) ==
    LET i == CHOOSE j \in DOMAIN seq : seq[j] = x /\ \A k \in 1..(j - 1) : seq[k] # x
    IN  SubSeq(seq, 1, i - 1) \o SubSeq(seq, i + 1, Len(seq))

\* The list without its element at position i.
RemoveAt(seq, i) == SubSeq(seq, 1, i - 1) \o SubSeq(seq, i + 1, Len(seq))

\* discord.utils.escape_markdown: a backslash before every markdown character.
MarkdownChars == {"*", "_", "\\"}

RECURSIVE escape_markdown(_)
escape_markdown(text) ==
    IF text = <<>> THEN <<>>
    ELSE (IF text[1] \in MarkdownChars THEN <<"\\", text[1]>> ELSE <<text[1]>>)
         \o escape_markdown(Tail(text))

\* ------------------------------------------------------------ cache entries
\* ChoiceMixin._update_choice: a new Choice when there is none, else the
\* existing Choice with name and value overwritten.
_update_choice(choice, name, value) ==
    IF choice = None THEN [name |-> name, value |-> value]
    ELSE [choice EXCEPT !.name = name, !.value = value]

\* OptionMixin._update_option
_update_option(option, label, value) ==
    IF option = None THEN [label |-> label, value |-> value]
    ELSE [option EXCEPT !.label = label, !.value = value]

\* ChoiceOptionStrCache.refresh
StrCache_refresh(e) ==
    [e EXCEPT !.choice = _update_choice(e.choice, e.value, e.value),
              !.option = _update_option(e.option, e.value, e.value)]

\* ChoiceOptionStrCache(value): StrCache.__init__ then Cache.__init__ -> refresh
ChoiceOptionStrCache(value) ==
    StrCache_refresh([value |-> value, choice |-> None, option |-> None])

\* MapData.refresh
MapData_refresh(m) ==
    [m EXCEPT !.choice = _update_choice(m.choice, m.map_code, m.map_code)]

\* MapData(map_code, user_ids, archived)
MapData(map_code, user_ids, archived) ==
    MapData_refresh([map_code |-> map_code, user_ids |-> user_ids,
                     archived |-> archived, choice |-> None])

\* MapData.update_map_code
update_map_code(m, map_code) == MapData_refresh([m EXCEPT !.map_code = map_code])

\* add_creator that quietly ignores a creator who is already listed.
add_creator_silent(m, user_id) ==
    IF In(user_id, m.user_ids)
    THEN [obj |-> m, raised |-> "None"]
    ELSE [obj |-> [m EXCEPT !.user_ids = Append(@, user_id)], raised |-> "None"]

\* MapData.add_creator: the entry afterwards and the exception raised.
add_creator(m, user_id) ==
    IF In(user_id, m.user_ids)
    THEN [obj |-> m, raised |-> "AlreadyExists"]
    ELSE [obj |-> [m EXCEPT !.user_ids = Append(@, user_id)], raised |-> "None"]

\* MapData.remove_creator
remove_creator(m, user_id) ==
    IF ~In(user_id, m.user_ids)
    THEN [obj |-> m, raised |-> "DoesNotExist"]
    ELSE [obj |-> [m EXCEPT !.user_ids = ListRemove(@, user_id)], raised |-> "None"]

\* UserData.refresh
UserData_refresh(u) ==
    [u EXCEPT !.choice = _update_choice(u.choice, u.nickname, str(u.user_id))]

\* UserData(user_id, nickname, flags, is_creator)
UserData(user_id, nickname, flags, is_creator) ==
    UserData_refresh([user_id |-> user_id, nickname |-> escape_markdown(nickname),
                      flags |-> flags, is_creator |-> is_creator, choice |-> None])

\* update_nickname that forgets to refresh the Choice.
update_nickname_stale(u, nickname) ==
    [u EXCEPT !.nickname = escape_markdown(nickname)]

\* UserData.update_nickname
update_nickname(u, nickname) ==
    UserData_refresh([u EXCEPT !.nickname = escape_markdown(nickname)])

\* UserData.update_user_id
update_user_id(u, user_id) == UserData_refresh([u EXCEPT !.user_id = user_id])

\* UserData.update_is_creator
update_is_creator(u, value) == [u EXCEPT !.is_creator = value]

\* ------------------------------------------------------------ SequenceCache
\* key_value of each collection of GenjiCache.
KeyValue ==
    [users |-> "user_id", maps |-> "map_code", map_names |-> "value",
     map_types |-> "value", map_mechanics |-> "value",
     map_restrictions |-> "value", tags |-> "value"]

Colls == DOMAIN KeyValue
StrColls == {"map_names", "map_types", "map_mechanics", "map_restrictions", "tags"}

\* getattr(obj, key_value)
getattr(obj, key_value) == obj[key_value]

\* SequenceCache.keys
keys(values, key_value) == [i \in 1..Len(values) |-> getattr(values[i], key_value)]

\* key == obj for a key (int or str) and a cache object: the cache classes
\* define no __eq__, so Python answers False.
KeyEqObj(key, obj) == FALSE

\* SequenceCache._find_one: the first object whose attribute equals value.
_find_one(cls_var, key, value) ==
    IF \E i \in DOMAIN cls_var : getattr(cls_var[i], key) = value
    THEN cls_var[CHOOSE i \in DOMAIN cls_var :
                    /\ getattr(cls_var[i], key) = value
                    /\ \A j \in 1..(i - 1) : getattr(cls_var[j], key) # value]
    ELSE None

\* SequenceCache.find
find(values, key_value, key) == _find_one(values, key_value, key)

\* SequenceCache._find_many
_find_many(cls_var, key, value) ==
    SelectSeq(cls_var, LAMBDA obj : getattr(obj, key) = value)

\* add_many that extends the list as it goes, so that the objects before the
\* first colliding one stay added.
add_many_partial(values, key_value, objs) ==
    IF \E i \in DOMAIN objs : In(getattr(objs[i], key_value), keys(values, key_value))
    THEN LET first == CHOOSE i \in DOMAIN objs :
                 /\ In(getattr(objs[i], key_value), keys(values, key_value))
                 /\ \A j \in 1..(i - 1) :
                        ~In(getattr(objs[j], key_value), keys(values, key_value))
         IN  [values |-> values \o SubSeq(objs, 1, first - 1),
              raised |-> "AlreadyExists"]
    ELSE [values |-> values \o objs, raised |-> "None"]

\* SequenceCache.add_many: the values afterwards and the exception raised.
add_many(values, key_value, objs) ==
    IF \E i \in DOMAIN objs : In(getattr(objs[i], key_value), keys(values, key_value))
    THEN [values |-> values, raised |-> "AlreadyExists"]
    ELSE [values |-> values \o objs, raised |-> "None"]

\* SequenceCache.add_one
add_one(values, key_value, obj) ==
    IF \E i \in DOMAIN values : KeyEqObj(getattr(obj, key_value), values[i])
    THEN [values |-> values, raised |-> "AlreadyExists"]
    ELSE add_many(values, key_value, <<obj>>)

\* remove_one that quietly ignores an absent key.
remove_one_silent(values, key_value, key) ==
    LET found == find(values, key_value, key)
    IN  [values |-> IF found # None THEN ListRemove(values, found) ELSE values,
         raised |-> "None"]

\* SequenceCache.remove_one
remove_one(values, key_value, key) ==
    IF ~In(key, keys(values, key_value))
    THEN [values |-> values, raised |-> "DoesNotExist"]
    ELSE LET found == find(values, key_value, key)
         IN  [values |-> IF found # None THEN ListRemove(values, found) ELSE values,
              raised |-> "None"]

\* SequenceCache.clear_all
clear_all(values) == <<>>

\* a < b for two keys of a collection: ints for users, str for the others.
KeyLess(key_value, a, b) ==
    IF key_value = "user_id" THEN a < b ELSE StrLess(a, b)

\* sorted(values, key=lambda x: getattr(x, key_value)): a stable sort.
RECURSIVE sorted(_, _)
sorted(values, key_value) ==
    IF values = <<>> THEN <<>>
    ELSE LET front == sorted(SubSeq(values, 1, Len(values) - 1), key_value)
             x == values[Len(values)]
             n == Cardinality({i \in DOMAIN front :
                      ~KeyLess(key_value, getattr(x, key_value),
                               getattr(front[i], key_value))})
         IN  SubSeq(front, 1, n) \o <<x>> \o SubSeq(front, n + 1, Len(front))

\* SequenceCache._choices
_choices(iterable) == [i \in 1..Len(iterable) |-> iterable[i].choice]

\* SequenceCache.choices
choices(values, key_value) == _choices(sorted(values, key_value))

\* Users.creator_choices
creator_choices(values) == _choices(_find_many(values, "is_creator", TRUE))

\* Users.creator_ids
creator_ids(values) ==
    LET cs == _find_many(values, "is_creator", TRUE)
    IN  [i \in 1..Len(cs) |-> cs[i].user_id]

\* --------------------------------------------------------------- GenjiCache
\* GenjiCache(): seven empty collections.
GenjiCache == [c \in Colls |-> <<>>]

\* The object add_users / add_maps / add_map_names ... build from one row.
Construct(coll, row) ==
    IF coll = "users"
    THEN UserData(row.user_id, row.nickname, row.flags, row.is_creator)
    ELSE IF coll = "maps"
    THEN MapData(row.map_code, row.user_ids, row.archived)
    ELSE ChoiceOptionStrCache(row.value)

\* x.refresh() of the entry class of a collection.
Refresh(coll, obj) ==
    IF coll = "users" THEN UserData_refresh(obj)
    ELSE IF coll = "maps" THEN MapData_refresh(obj)
    ELSE StrCache_refresh(obj)

\* GenjiCache._refresh
_refresh(coll, cls_var) == [i \in 1..Len(cls_var) |-> Refresh(coll, cls_var[i])]

\* GenjiCache.refresh_cache
refresh_cache(c) == [coll \in Colls |-> _refresh(coll, c[coll])]

\* The order in which GenjiCache.setup loads the collections.
SetupOrder ==
    <<"users", "maps", "map_names", "map_types", "map_mechanics",
      "map_restrictions", "tags">>

\* GenjiCache.setup from its k-th add_* call on: each call builds the objects
\* of its rows and add_many's them; an exception ends the setup there.
RECURSIVE SetupFrom(_, _, _)
SetupFrom(c, rows, k) ==
    IF k > Len(SetupOrder) THEN [cache |-> c, raised |-> "None"]
    ELSE LET coll == SetupOrder[k]
             objs == [i \in 1..Len(rows[coll]) |-> Construct(coll, rows[coll][i])]
             r == add_many(c[coll], KeyValue[coll], objs)
         IN  IF r.raised # "None" THEN [cache |-> c, raised |-> r.raised]
             ELSE SetupFrom([c EXCEPT ![coll] = r.values], rows, k + 1)

\* GenjiCache.setup
setup(c, rows) == SetupFrom(c, rows, 1)

\* ------------------------------------------------------------------- inputs
UserIds == {7, 12}
Nicknames == {<<"a", "B">>, <<"b", "*">>}
MapCodes == {<<"A", "0", "B", "1">>, <<"1", "A", "B", "0">>}
StrValues == {<<"a">>, <<"A", "b">>}
\* SettingFlags.DEFAULT = VERIFICATION | PROMOTION
DEFAULT == 3

\* Rows the store returns for each collection. A map row carries one or more
\* distinct creators (map_creators has one row per map and creator).
UserRows ==
    {[user_id |-> 7, nickname |-> <<"a", "B">>, flags |-> DEFAULT, is_creator |-> FALSE],
     [user_id |-> 12, nickname |-> <<"b", "*">>, flags |-> DEFAULT, is_creator |-> TRUE]}
MapRows ==
    {[map_code |-> <<"A", "0", "B", "1">>, user_ids |-> <<12>>, archived |-> FALSE],
     [map_code |-> <<"1", "A", "B", "0">>, user_ids |-> <<12>>, archived |-> FALSE]}
StrRows == [value : StrValues]
Rows(coll) ==
    IF coll = "users" THEN UserRows ELSE IF coll = "maps" THEN MapRows ELSE StrRows
KeysOf(coll) ==
    IF coll = "users" THEN UserIds ELSE IF coll = "maps" THEN MapCodes ELSE StrValues

Batches(S) == UNION {[1..n -> S] : n \in 1..MaxBatch}

\* -------------------------------------------------------------------- state
VARIABLES
    cache,  \* GenjiCache: collection name -> list of entries
    last,   \* the last cache operation: its name, arguments, the cache before
            \* it and the exception it raised
    tasks,  \* the add_creator_ / remove_creator_ handlers in flight
    world   \* what lives outside the cache: the rows of the store, the
            \* messages and threads of the guild, the registered views

vars == <<cache, last, tasks, world>>

\* The store and the guild before anything was submitted.
NoWorld ==
    [maps |-> <<>>, playtest |-> <<>>, playtest_views |-> {}, messages |-> <<>>,
     threads |-> <<>>, map_makers |-> {}, newsfeed |-> <<>>,
     change_requests |-> <<>>, submitted |-> <<>>,
     declined |-> {}, sweep |-> <<>>, rabbit |-> <<>>, hist |-> <<>>,
     menu |-> <<>>, map_creators |-> {}, analytics |-> <<>>,
     restart |-> <<>>, setups |-> <<>>, confirm |-> <<>>,
     close |-> <<>>, perm |-> <<>>, flags |-> <<>>]

TaskIds == 1..MaxTasks
Idle == [pc |-> "idle"]

TotalEntries(c) ==
    Len(c.users) + Len(c.maps) + Len(c.map_names) + Len(c.map_types)
    + Len(c.map_mechanics) + Len(c.map_restrictions) + Len(c.tags)

\* The collections that hold at least one entry.
Loaded(c) == {coll \in Colls : c[coll] # <<>>}

\* The cache stays within the bounds of the model.
WithinBounds(c) ==
    /\ TotalEntries(c) <= MaxEntries
    /\ Cardinality(Loaded(c)) <= MaxLoaded

Init ==
    /\ cache = GenjiCache
    /\ last = [op |-> "init", coll |-> "none", raised |-> "None"]
    /\ tasks = [t \in TaskIds |-> Idle]
    /\ world = NoWorld

\* GenjiCache.add_users / add_maps / add_map_names / add_map_types /
\* add_map_mechanics / add_map_restrictions / add_tags
AddRows(coll) ==
    \E rows \in Batches(Rows(coll)) :
        LET objs == [i \in 1..Len(rows) |-> Construct(coll, rows[i])]
            r == add_many(cache[coll], KeyValue[coll], objs)
        IN  /\ cache' = [cache EXCEPT ![coll] = r.values]
            /\ WithinBounds(cache')
            /\ last' = [op |-> "add_many", coll |-> coll, objs |-> objs,
                        before |-> cache, raised |-> r.raised]
            /\ UNCHANGED <<tasks, world>>

\* cache.<coll>.add_one(obj)
AddOne(coll) ==
    \E row \in Rows(coll) :
        LET obj == Construct(coll, row)
            r == add_one(cache[coll], KeyValue[coll], obj)
        IN  /\ cache' = [cache EXCEPT ![coll] = r.values]
            /\ WithinBounds(cache')
            /\ last' = [op |-> "add_one", coll |-> coll, objs |-> <<obj>>,
                        before |-> cache, raised |-> r.raised]
            /\ UNCHANGED <<tasks, world>>

\* cache.<coll>.remove_one(key)
RemoveOne(coll) ==
    \E key \in KeysOf(coll) :
        LET r == remove_one(cache[coll], KeyValue[coll], key)
        IN  /\ cache' = [cache EXCEPT ![coll] = r.values]
            /\ last' = [op |-> "remove_one", coll |-> coll, key |-> key,
                        before |-> cache, raised |-> r.raised]
            /\ UNCHANGED <<tasks, world>>

\* cache.<coll>.clear_all()
ClearAll(coll) ==
    /\ cache' = [cache EXCEPT ![coll] = clear_all(cache[coll])]
    /\ last' = [op |-> "clear_all", coll |-> coll, raised |-> "None"]
    /\ UNCHANGED <<tasks, world>>

\* entry.update_map_code(map_code) on an entry of cache.maps
UpdateMapCode ==
    \E i \in DOMAIN cache.maps, map_code \in MapCodes :
        /\ cache' = [cache EXCEPT !.maps[i] = update_map_code(@, map_code)]
        /\ last' = [op |-> "update_map_code", coll |-> "maps", idx |-> i,
                    raised |-> "None"]
        /\ UNCHANGED <<tasks, world>>

\* entry.update_user_id(user_id) on an entry of cache.users
UpdateUserId ==
    \E i \in DOMAIN cache.users, user_id \in UserIds :
        /\ cache' = [cache EXCEPT !.users[i] = update_user_id(@, user_id)]
        /\ last' = [op |-> "update_user_id", coll |-> "users", idx |-> i,
                    raised |-> "None"]
        /\ UNCHANGED <<tasks, world>>

\* entry.update_nickname(nickname) on an entry of cache.users
UpdateNickname ==
    \E i \in DOMAIN cache.users, nickname \in Nicknames :
        /\ cache' = [cache EXCEPT !.users[i] = update_nickname(@, nickname)]
        /\ last' = [op |-> "update_nickname", coll |-> "users", idx |-> i,
                    raised |-> "None"]
        /\ UNCHANGED <<tasks, world>>

\* entry.add_creator(user_id) on an entry of cache.maps
AddCreator ==
    \E i \in DOMAIN cache.maps, user_id \in UserIds :
        LET r == add_creator(cache.maps[i], user_id)
        IN  /\ cache' = [cache EXCEPT !.maps[i] = r.obj]
            /\ last' = [op |-> "add_creator", coll |-> "maps", idx |-> i,
                        user_id |-> user_id, before |-> cache,
                        raised |-> r.raised]
            /\ UNCHANGED <<tasks, world>>

\* entry.remove_creator(user_id) on an entry of cache.maps
RemoveCreator ==
    \E i \in DOMAIN cache.maps, user_id \in UserIds :
        LET r == remove_creator(cache.maps[i], user_id)
        IN  /\ cache' = [cache EXCEPT !.maps[i] = r.obj]
            /\ last' = [op |-> "remove_creator", coll |-> "maps", idx |-> i,
                        user_id |-> user_id, before |-> cache,
                        raised |-> r.raised]
            /\ UNCHANGED <<tasks, world>>

\* GenjiCache.refresh_cache()
RefreshCache ==
    /\ cache' = refresh_cache(cache)
    /\ last' = [op |-> "refresh_cache", coll |-> "all", raised |-> "None"]
    /\ UNCHANGED <<tasks, world>>

\* The collections the cache operations are run on: users, maps and two of the
\* five string collections, which share one class (ChoiceOptionStrCache
\* entries in a SequenceCache).
OperatedColls == {"users", "maps", "map_names", "tags"}

Next ==
    \/ \E coll \in OperatedColls : AddRows(coll)
    \/ \E coll \in OperatedColls : AddOne(coll)
    \/ \E coll \in OperatedColls : RemoveOne(coll)
    \/ \E coll \in OperatedColls : ClearAll(coll)
    \/ UpdateMapCode
    \/ UpdateUserId
    \/ UpdateNickname
    \/ RefreshCache

Spec == Init /\ [][Next]_vars

\* ------------------------------------- add_creator_ / remove_creator_ handlers
\* The store snapshots the creator handlers start from: both users are cached,
\* user 12 is the creator of every stored map.
CreatorSnapshots ==
    {[c \in Colls |-> IF c = "users" THEN us ELSE IF c = "maps" THEN ms ELSE <<>>] :
        us \in {u \in [1..2 -> UserRows] : u[1] # u[2]},
        ms \in {m \in Batches(MapRows) : \A i, j \in DOMAIN m : i # j => m[i] # m[j]}}

\* Most add_creator_ / remove_creator_ handlers running at the same time.
MaxHandlers == 2

HandlerIds == 1..MaxHandlers

\* The rows of the table map_creators behind the given map rows.
MapCreatorRows(ms) ==
    UNION {{[map_code |-> ms[i].map_code, user_id |-> ms[i].user_ids[j]] :
               j \in DOMAIN ms[i].user_ids} : i \in DOMAIN ms}

InitCreators ==
    /\ \E rows \in CreatorSnapshots :
           /\ cache = setup(GenjiCache, rows).cache
           /\ world = [NoWorld EXCEPT !.map_creators = MapCreatorRows(rows.maps)]
    /\ last = [op |-> "setup", coll |-> "all", raised |-> "None"]
    /\ tasks = [t \in TaskIds |-> Idle]

\* Two cached users and one stored map, with MaxHandlers handlers that may run
\* at the same time.
InitConcurrentCreators ==
    /\ \E rows \in {r \in CreatorSnapshots :
                       /\ Len(r.maps) = 1
                       /\ r.users[1].user_id < r.users[2].user_id} :
           /\ cache = setup(GenjiCache, rows).cache
           /\ world = [NoWorld EXCEPT !.map_creators = MapCreatorRows(rows.maps)]
    /\ last = [op |-> "setup", coll |-> "all", raised |-> "None"]
    /\ tasks = [t \in HandlerIds |-> Idle]

\* The cache with the first entry of maps whose code is map_code replaced.
WithMap(c, map_code, obj) ==
    LET i == CHOOSE k \in DOMAIN c.maps :
                 /\ c.maps[k].map_code = map_code
                 /\ \A j \in 1..(k - 1) : c.maps[j].map_code # map_code
    IN  [c EXCEPT !.maps[i] = obj]

\* The cache with the first entry of users whose id is user_id replaced.
WithUser(c, user_id, obj) ==
    LET i == CHOOSE k \in DOMAIN c.users :
                 /\ c.users[k].user_id = user_id
                 /\ \A j \in 1..(k - 1) : c.users[j].user_id # user_id
    IN  [c EXCEPT !.users[i] = obj]

\* A handler ended: its slot is free again and its outcome is recorded.
Finish(t, raised) ==
    /\ tasks' = [tasks EXCEPT ![t] = Idle]
    /\ last' = [op |-> tasks[t].kind, coll |-> "maps", creator |-> tasks[t].creator,
                map_code |-> tasks[t].map_code, raised |-> raised]

\* add_creator_ / remove_creator_ up to `await itx.response.defer(...)`.
CallCreatorHandler(t) ==
    \E kind \in {"add_creator_", "remove_creator_"},
       creator \in UserIds, map_code \in MapCodes :
        /\ tasks[t] = Idle
        /\ tasks' = [tasks EXCEPT ![t] = [pc |-> "deferred", kind |-> kind,
                                          creator |-> creator, map_code |-> map_code]]
        /\ UNCHANGED <<cache, last, world>>

\* add_creator_ from the membership check up to `await database.set(INSERT ...)`.
add_creator_check(t) ==
    /\ tasks[t].pc = "deferred"
    /\ tasks[t].kind = "add_creator_"
    /\ LET m == find(cache.maps, "map_code", tasks[t].map_code)
       IN  IF m = None THEN Finish(t, "AttributeError")
           ELSE IF In(tasks[t].creator, m.user_ids) THEN Finish(t, "CreatorAlreadyExists")
           ELSE /\ tasks' = [tasks EXCEPT ![t].pc = "writing"]
                /\ UNCHANGED last
    /\ UNCHANGED <<cache, world>>

\* The statement of `await itx.client.database.set(...)` is executed by the
\* store while the handler is suspended: the INSERT adds the row of the map
\* and the creator, the DELETE removes it. An INSERT of a row that is already
\* there adds nothing or, under a unique key, raises.
database_set(t) ==
    /\ tasks[t].pc = "writing"
    /\ LET row == [map_code |-> tasks[t].map_code, user_id |-> tasks[t].creator]
       IN  \/ /\ world' = [world EXCEPT !.map_creators =
                                IF tasks[t].kind = "add_creator_"
                                THEN @ \cup {row} ELSE @ \ {row}]
              /\ tasks' = [tasks EXCEPT ![t].pc = "written"]
              /\ UNCHANGED last
           \/ /\ tasks[t].kind = "add_creator_"
              /\ row \in world.map_creators
              /\ Finish(t, "UniqueViolationError")
              /\ UNCHANGED world
    /\ UNCHANGED cache

\* add_creator_ after the INSERT: MapData.add_creator, then is_creator = True
\* on the cached user, then the reply.
add_creator_apply(t) ==
    /\ UNCHANGED world
    /\ tasks[t].pc = "written"
    /\ tasks[t].kind = "add_creator_"
    /\ LET m == find(cache.maps, "map_code", tasks[t].map_code)
           u == find(cache.users, "user_id", tasks[t].creator)
       IN  IF m = None THEN Finish(t, "AttributeError") /\ UNCHANGED cache
           ELSE LET r == add_creator(m, tasks[t].creator)
                    c1 == WithMap(cache, tasks[t].map_code, r.obj)
                IN  IF r.raised # "None" THEN Finish(t, r.raised) /\ UNCHANGED cache
                    ELSE IF u = None
                    THEN Finish(t, "AttributeError") /\ cache' = c1
                    ELSE /\ Finish(t, "None")
                         /\ cache' = WithUser(c1, tasks[t].creator,
                                              [u EXCEPT !.is_creator = TRUE])

\* remove_creator_ from the membership check up to `await database.set(DELETE ...)`.
remove_creator_check(t) ==
    /\ tasks[t].pc = "deferred"
    /\ tasks[t].kind = "remove_creator_"
    /\ LET m == find(cache.maps, "map_code", tasks[t].map_code)
       IN  IF m = None THEN Finish(t, "AttributeError")
           ELSE IF ~In(tasks[t].creator, m.user_ids) THEN Finish(t, "CreatorDoesntExist")
           ELSE /\ tasks' = [tasks EXCEPT ![t].pc = "writing"]
                /\ UNCHANGED last
    /\ UNCHANGED <<cache, world>>

\* remove_creator_ after the DELETE: MapData.remove_creator, then the reply,
\* which reads the nickname of the cached user.
remove_creator_apply(t) ==
    /\ UNCHANGED world
    /\ tasks[t].pc = "written"
    /\ tasks[t].kind = "remove_creator_"
    /\ LET m == find(cache.maps, "map_code", tasks[t].map_code)
           u == find(cache.users, "user_id", tasks[t].creator)
       IN  IF m = None THEN Finish(t, "AttributeError") /\ UNCHANGED cache
           ELSE LET r == remove_creator(m, tasks[t].creator)
                IN  IF r.raised # "None" THEN Finish(t, r.raised) /\ UNCHANGED cache
                    ELSE /\ cache' = WithMap(cache, tasks[t].map_code, r.obj)
                         /\ Finish(t, IF u = None THEN "AttributeError" ELSE "None")

NextCreators ==
    \/ \E t \in TaskIds : CallCreatorHandler(t)
    \/ \E t \in TaskIds : add_creator_check(t)
    \/ \E t \in TaskIds : database_set(t)
    \/ \E t \in TaskIds : add_creator_apply(t)
    \/ \E t \in TaskIds : remove_creator_check(t)
    \/ \E t \in TaskIds : remove_creator_apply(t)

NextConcurrentCreators ==
    \/ \E t \in HandlerIds : CallCreatorHandler(t)
    \/ \E t \in HandlerIds : add_creator_check(t)
    \/ \E t \in HandlerIds : database_set(t)
    \/ \E t \in HandlerIds : add_creator_apply(t)
    \/ \E t \in HandlerIds : remove_creator_check(t)
    \/ \E t \in HandlerIds : remove_creator_apply(t)

\* The creator handlers of several interactions, interleaved at their awaits.
SpecConcurrentCreators ==
    InitConcurrentCreators /\ [][NextConcurrentCreators]_vars

\* The creator handlers, run on a loaded cache.
SpecCreators == InitCreators /\ [][NextCreators]_vars

NextMapData ==
    \/ AddCreator
    \/ RemoveCreator

\* MapData.add_creator / remove_creator called on the entries of a loaded cache.
SpecMapData == InitCreators /\ [][NextMapData]_vars

\* ------------------------------------------------------------- autocomplete
\* The number of choices one autocomplete reply may carry (the [:25] slices).
AutocompleteLimit == 25

\* seq[:n]
Take(seq, n) == SubSeq(seq, 1, IF Len(seq) < n THEN Len(seq) ELSE n)

\* str.replace(old, new) for a one-character old.
replace(s, old, new) == [i \in 1..Len(s) |-> IF s[i] = old THEN new ELSE s[i]]

\* case_ignore_compare: string2.casefold() in string1.casefold(). Choice names
\* and the typed text are always str, so the None branch is never taken.
case_ignore_compare(string1, string2) ==
    Contains(casefold(string1), casefold(string2))

\* _autocomplete that slices only the reply to an empty input.
_autocomplete_unsliced(current, choices_) ==
    IF choices_ = <<>> THEN <<>>
    ELSE IF current = <<>> THEN Take(choices_, AutocompleteLimit)
    ELSE SelectSeq(choices_, LAMBDA x : case_ignore_compare(x.name, current))

\* _autocomplete
_autocomplete(current, choices_) ==
    IF choices_ = <<>> THEN <<>>
    ELSE IF current = <<>> THEN Take(choices_, AutocompleteLimit)
    ELSE Take(SelectSeq(choices_, LAMBDA x : case_ignore_compare(x.name, current)),
              AutocompleteLimit)

\* The autocomplete functions of cogs/__init__.py.
Surfaces ==
    {"creator_autocomplete", "map_codes_autocomplete", "map_name_autocomplete",
     "map_type_autocomplete", "map_mechanics_autocomplete",
     "map_restrictions_autocomplete", "tags_autocomplete", "users_autocomplete"}

\* The list of choices each *_autocomplete function hands to _autocomplete.
SurfaceChoices(c, surface) ==
    IF surface = "creator_autocomplete" THEN creator_choices(c.users)
    ELSE IF surface = "map_codes_autocomplete" THEN choices(c.maps, "map_code")
    ELSE IF surface = "map_name_autocomplete" THEN choices(c.map_names, "value")
    ELSE IF surface = "map_type_autocomplete" THEN choices(c.map_types, "value")
    ELSE IF surface = "map_mechanics_autocomplete"
    THEN choices(c.map_mechanics, "value")
    ELSE IF surface = "map_restrictions_autocomplete"
    THEN choices(c.map_restrictions, "value")
    ELSE IF surface = "tags_autocomplete" THEN choices(c.tags, "value")
    ELSE choices(c.users, "user_id")

\* The text each *_autocomplete function hands to _autocomplete:
\* map_codes_autocomplete first turns O and o into 0.
SurfaceCurrent(surface, current) ==
    IF surface = "map_codes_autocomplete"
    THEN replace(replace(current, "O", "0"), "o", "0")
    ELSE current

\* The feed of the store: position i of every collection holds key number
\* (i * stride) % 29, so the keys are distinct and, for a stride above 1, not
\* in key order.
KeyNo(i, stride) == (i * stride) % 29
Strides == {1, 7}

FeedNicknames == <<<<"a", "B">>, <<"b", "*">>, <<"A", "b", "a">>, <<"o", "b">>>>
CodeChars == <<"0", "1", "2", "3", "A", "B">>
ValueChars == <<"A", "B", "O", "a", "b", "o">>

FeedMapCode(k) == <<"A", CodeChars[(k \div 6) + 1], CodeChars[(k % 6) + 1], "0">>
FeedValue(k) == <<ValueChars[(k \div 6) + 1], ValueChars[(k % 6) + 1]>>

\* Which users the feed marks as creators: all but the second, or every
\* other one.
CreatorRules == {"most", "alternate"}
FeedIsCreator(i, rule) == IF rule = "most" THEN i # 2 ELSE i % 2 = 1

\* The rows of a store that holds n users, n maps and n values of each kind.
Feed(n, stride, rule) ==
    [coll \in Colls |->
        [i \in 1..n |->
            IF coll = "users"
            THEN [user_id |-> KeyNo(i, stride),
                  nickname |-> FeedNicknames[(i % 4) + 1],
                  flags |-> DEFAULT, is_creator |-> FeedIsCreator(i, rule)]
            ELSE IF coll = "maps"
            THEN [map_code |-> FeedMapCode(KeyNo(i, stride)),
                  user_ids |-> <<KeyNo(1, stride)>>, archived |-> FALSE]
            ELSE [value |-> FeedValue(KeyNo(i, stride))]]]

\* What a member types into an autocompleted field.
Currents == {<<>>, <<"B">>, <<"a">>, <<"O">>, <<"A", "b">>, <<"*">>}

\* The sizes of the store the cache is loaded from: nearly empty, and around
\* the limit of one reply.
LoadSizes == {0, 1, 2} \cup ((MaxLoad - 2)..MaxLoad)

InitAutocomplete ==
    /\ \E n \in LoadSizes, stride \in Strides, rule \in CreatorRules :
          cache = setup(GenjiCache, Feed(n, stride, rule)).cache
    /\ last = [op |-> "setup", coll |-> "all", raised |-> "None"]
    /\ tasks = [t \in TaskIds |-> Idle]
    /\ world = NoWorld

\* One call of the autocomplete function named surface.
Autocomplete(surface) ==
    \E current \in Currents :
        LET passed == SurfaceCurrent(surface, current)
            choices_ == SurfaceChoices(cache, surface)
        IN  /\ last' = [op |-> surface, coll |-> "none", raised |-> "None",
                        current |-> current, passed |-> passed,
                        choices |-> choices_,
                        response |-> _autocomplete(passed, choices_)]
            /\ UNCHANGED <<cache, tasks, world>>

creator_autocomplete == Autocomplete("creator_autocomplete")
map_codes_autocomplete == Autocomplete("map_codes_autocomplete")
map_name_autocomplete == Autocomplete("map_name_autocomplete")
map_type_autocomplete == Autocomplete("map_type_autocomplete")
map_mechanics_autocomplete == Autocomplete("map_mechanics_autocomplete")
map_restrictions_autocomplete == Autocomplete("map_restrictions_autocomplete")
tags_autocomplete == Autocomplete("tags_autocomplete")
users_autocomplete == Autocomplete("users_autocomplete")

NextAutocomplete ==
    \/ creator_autocomplete
    \/ map_codes_autocomplete
    \/ map_name_autocomplete
    \/ map_type_autocomplete
    \/ map_mechanics_autocomplete
    \/ map_restrictions_autocomplete
    \/ tags_autocomplete
    \/ users_autocomplete

\* The autocomplete functions, run on a cache loaded from the store.
SpecAutocomplete == InitAutocomplete /\ [][NextAutocomplete]_vars

\* ------------------------------------------------------ map code transformers
\* str.upper() of one ASCII character: a-z go to A-Z.
upper_char(c) ==
    IF CodePoint[c] >= 97 /\ CodePoint[c] <= 122
    THEN (IF CodePoint[c] - 32 \in {CodePoint[d] : d \in Chars}
          THEN Chr(CodePoint[c] - 32) ELSE c)
    ELSE c

\* str.upper()
upper(s) == [i \in 1..Len(s) |-> upper_char(s[i])]

Whitespace == {" ", "\n"}

\* str.lstrip()
RECURSIVE lstrip(_)
lstrip(s) ==
    IF s # <<>> /\ s[1] \in Whitespace THEN lstrip(Tail(s)) ELSE s

\* str.rstrip()
RECURSIVE rstrip(_)
rstrip(s) ==
    IF s # <<>> /\ s[Len(s)] \in Whitespace THEN rstrip(SubSeq(s, 1, Len(s) - 1)) ELSE s

\* _clean_code that forgets to turn the letter O into the digit 0.
_clean_code_keep_o(map_code) == rstrip(lstrip(upper(map_code)))

\* _MapCodeBaseTransformer._clean_code
_clean_code(map_code) == rstrip(lstrip(replace(upper(map_code), "O", "0")))

\* [A-Z0-9]
CodeClass(c) ==
    \/ CodePoint[c] >= 65 /\ CodePoint[c] <= 90
    \/ CodePoint[c] >= 48 /\ CodePoint[c] <= 57

\* re.match(CODE_VERIFICATION, value) for ^[A-Z0-9]{4,6}$; `$` also matches
\* just before a newline that ends the string.
CODE_VERIFICATION(value) ==
    LET body == IF value # <<>> /\ value[Len(value)] = "\n"
                THEN {value, SubSeq(value, 1, Len(value) - 1)} ELSE {value}
    IN  \E b \in body :
            /\ Len(b) >= 4
            /\ Len(b) <= 6
            /\ \A i \in DOMAIN b : CodeClass(b[i])

\* Database.is_existing_map_code: the code is one of the stored map codes.
is_existing_map_code(existing, value) == value \in existing

\* MapCodeSubmitTransformer.transform: the code returned and the exception
\* raised.
transform(value, existing) ==
    LET cleaned == _clean_code(value)
    IN  IF ~CODE_VERIFICATION(cleaned)
        THEN [raised |-> "IncorrectCodeFormatError", value |-> <<>>]
        ELSE IF is_existing_map_code(existing, cleaned)
        THEN [raised |-> "MapExistsError", value |-> <<>>]
        ELSE [raised |-> "None", value |-> cleaned]

\* What a member may type as a map code.
RECURSIVE Texts(_, _)
Texts(alphabet, n) ==
    IF n = 0 THEN {<<>>}
    ELSE LET shorter == Texts(alphabet, n - 1)
         IN  shorter \cup {Append(w, c) : w \in shorter, c \in alphabet}

RawCodes ==
    Texts({"o", "A", " ", "-"}, MaxCodeLen)
    \cup {<<"A", "0", "B", "1">>, <<"a", "O", "b", "1">>, <<"1", "a", "b", "o", "\n">>,
          <<"\n", "A", "A", "A", "A">>, <<"A", "A", "\n", "A", "A">>}

\* The map codes the store may hold when the command is parsed.
StoredCodes == {{}, {<<"A", "0", "0", "A">>, <<"A", "0", "B", "1">>}}

InitTransform ==
    /\ cache = GenjiCache
    /\ \E value \in RawCodes, existing \in StoredCodes :
          last = [op |-> "input", coll |-> "none", raised |-> "None",
                  value |-> value, existing |-> existing]
    /\ tasks = [t \in TaskIds |-> Idle]
    /\ world = NoWorld

\* The command parser hands the typed map code to MapCodeSubmitTransformer.
Transform ==
    /\ last.op = "input"
    /\ LET r == transform(last.value, last.existing)
       IN  last' = [op |-> "transform", coll |-> "none", raised |-> r.raised,
                    value |-> last.value, existing |-> last.existing,
                    result |-> r.value]
    /\ UNCHANGED <<cache, tasks, world>>

NextTransform == Transform

\* MapCodeSubmitTransformer.transform applied to a typed map code.
SpecTransform == InitTransform /\ [][NextTransform]_vars

\* --------------------------------------------------------------- submission
\* The (gold, silver, bronze) medal times a member may enter, in seconds; 0 is
\* the default of a medal option that was left out.
Medals(gold_, silver_, bronze_) ==
    [gold |-> gold_, silver |-> silver_, bronze |-> bronze_]
MedalTimes ==
    {Medals(10, 20, 30), Medals(20, 10, 30), Medals(10, 20, 20), Medals(10, 10, 20),
     Medals(30, 20, 10), Medals(0, 10, 20), Medals(10, 0, 0), Medals(0, 0, 0)}

\* Most open self-authored playtest rows a member has in the store.
MaxOpen == 6

\* utils.MapSubmission, its medals: None, or the (gold, silver, bronze) tuple,
\* written as a record.
MapSubmission(medals) == [medals |-> medals]

\* MapSubmission.gold / silver / bronze
gold(data) == data.medals.gold
silver(data) == data.medals.silver
bronze(data) == data.medals.bronze

Submissions ==
    {MapSubmission(None)} \cup
    {MapSubmission(m) : m \in MedalTimes \ {Medals(0, 0, 0)}}

\* The days on which the member runs the command, and the sets of dates (day
\* numbers) the member's rows of map_submission_dates may carry: none, one or
\* more inside the last week, older ones, and mixes of both.
CommandDays == {10}
SubmissionDates == {{}, {9}, {1}, {4, 9}, {1, 9}, {1, 4, 9}, {4, 9, 10}}

\* The smallest element of a non-empty set of day numbers.
Min(S) == CHOOSE d \in S : \A e \in S : d <= e

\* _check_weekly_limit that counts every date of the member, old or recent.
_check_weekly_limit_all(dates, now) ==
    [count |-> Cardinality(dates), date |-> IF dates = {} THEN None ELSE Min(dates)]

\* _check_weekly_limit: count(*) and min(date) of the member's dates BETWEEN
\* now() - 1 week AND now(); min of no row is NULL.
_check_weekly_limit(dates, now) ==
    LET counted == {d \in dates : now - 7 <= d /\ d <= now}
    IN  [count |-> Cardinality(counted),
         date |-> IF counted = {} THEN None ELSE Min(counted)]

\* submit_map_ that lets a member with exactly 5 open playtests through.
submit_map_over5(data, max_limit, weekly_limit) ==
    IF data.medals # None
       /\ ~(0 < gold(data) /\ gold(data) < silver(data) /\ silver(data) < bronze(data))
    THEN [raised |-> "InvalidMedals", date |-> None]
    ELSE IF max_limit > 5
    THEN [raised |-> "MaxMapsInPlaytest", date |-> None]
    ELSE IF weekly_limit.count >= 2
    THEN [raised |-> "MaxWeeklyMapsInPlaytest", date |-> weekly_limit.date + 7]
    ELSE [raised |-> "None", date |-> None]

\* submit_map_ up to `await view.start()`: the exception raised ("None" when
\* the confirmation view was started) and the retry date of the weekly limit.
submit_map_(data, max_limit, weekly_limit) ==
    IF data.medals # None
       /\ ~(0 < gold(data) /\ gold(data) < silver(data) /\ silver(data) < bronze(data))
    THEN [raised |-> "InvalidMedals", date |-> None]
    ELSE IF max_limit >= 5
    THEN [raised |-> "MaxMapsInPlaytest", date |-> None]
    ELSE IF weekly_limit.count >= 2
    THEN [raised |-> "MaxWeeklyMapsInPlaytest", date |-> weekly_limit.date + 7]
    ELSE [raised |-> "None", date |-> None]

\* MapModel(..., gold=gold, silver=silver, bronze=bronze): a plain struct;
\* category, mechanics and restrictions default to [], difficulty to "".
MapModel(gold_, silver_, bronze_) ==
    [gold |-> gold_, silver |-> silver_, bronze |-> bronze_, category |-> <<>>,
     difficulty |-> <<>>, mechanics |-> <<>>, restrictions |-> <<>>]

\* A member runs the legacy submit command: submit_map_.
SubmitMap ==
    \E data \in Submissions, max_limit \in 0..MaxOpen,
       dates \in SubmissionDates, now \in CommandDays :
        LET r == submit_map_(data, max_limit, _check_weekly_limit(dates, now))
        IN  /\ last' = [op |-> "submit_map_", coll |-> "none", data |-> data,
                        max_limit |-> max_limit, dates |-> dates, now |-> now,
                        raised |-> r.raised, date |-> r.date]
            /\ UNCHANGED <<cache, tasks, world>>

\* Playlist.submit_playlist, the submit-playtest command: builds the MapModel
\* and shows the PlaylistSubmissionView, which then waits for a button.
submit_playlist(t) ==
    \E m \in MedalTimes :
        LET data == MapModel(m.gold, m.silver, m.bronze)
        IN  /\ tasks[t] = Idle
            /\ tasks' = [tasks EXCEPT ![t] = [pc |-> "view", kind |-> "submit_playlist",
                                              data |-> data]]
            /\ last' = [op |-> "submit_playlist", coll |-> "none", data |-> data,
                        raised |-> "None"]
            /\ UNCHANGED <<cache, world>>

\* PlaylistSubmissionView.submit: the view stops and its data is posted to the
\* playtest API.
PlaylistSubmissionView_submit(t) ==
    /\ tasks[t].pc = "view"
    /\ tasks' = [tasks EXCEPT ![t] = Idle]
    /\ last' = [op |-> "submit", coll |-> "none", posted |-> tasks[t].data,
                raised |-> "None"]
    /\ UNCHANGED <<cache, world>>

\* PlaylistSubmissionView.cancel: the view stops, nothing is posted.
PlaylistSubmissionView_cancel(t) ==
    /\ tasks[t].pc = "view"
    /\ tasks' = [tasks EXCEPT ![t] = Idle]
    /\ last' = [op |-> "cancel", coll |-> "none", raised |-> "None"]
    /\ UNCHANGED <<cache, world>>

\* The four dropdowns PlaylistSubmissionView.async_init adds, and what a member
\* may pick in one of them: at least one option (min_values=1).
DropdownTypes == {"category", "restrictions", "mechanics", "difficulty"}
DropdownValues == {<<<<"a">>>>, <<<<"a">>, <<"A", "b">>>>}

\* PlaytestSubmissionDropdown.callback: difficulty takes the first picked
\* value, the other fields the list of picked values.
PlaytestSubmissionDropdown_callback(t) ==
    \E dropdown_type \in DropdownTypes, values \in DropdownValues :
        /\ tasks[t].pc = "view"
        /\ dropdown_type = "difficulty" => Len(values) = 1
        /\ tasks' = [tasks EXCEPT ![t].data =
                         IF dropdown_type = "difficulty"
                         THEN [@ EXCEPT !.difficulty = values[1]]
                         ELSE [@ EXCEPT ![dropdown_type] = values]]
        /\ last' = [op |-> "callback", coll |-> "none",
                    dropdown_type |-> dropdown_type, raised |-> "None"]
        /\ UNCHANGED <<cache, world>>

NextPlaylist ==
    \/ \E t \in TaskIds : submit_playlist(t)
    \/ \E t \in TaskIds : PlaytestSubmissionDropdown_callback(t)
    \/ \E t \in TaskIds : PlaylistSubmissionView_submit(t)
    \/ \E t \in TaskIds : PlaylistSubmissionView_cancel(t)

\* The submit-playtest command and its view with the four dropdowns.
SpecPlaylist == Init /\ [][NextPlaylist]_vars

NextSubmit ==
    \/ SubmitMap
    \/ \E t \in TaskIds : submit_playlist(t)
    \/ \E t \in TaskIds : PlaylistSubmissionView_submit(t)
    \/ \E t \in TaskIds : PlaylistSubmissionView_cancel(t)

\* The two submit commands, run by members.
SpecSubmit == Init /\ [][NextSubmit]_vars

\* ------------------------------------------------- map submission workflow
\* Largest number of submit commands run in the workflow checks.
MaxCommands == 2
\* Largest number of submit workflows in flight.
MaxFlows == 2

FlowIds == 1..MaxFlows

\* _check_max_limit: the count of the member's self-authored playtest rows.
_check_max_limit(playtest, user_id) ==
    Cardinality({i \in DOMAIN playtest :
                    playtest[i].is_author /\ playtest[i].user_id = user_id})

\* The codes of the rows of the maps table.
StoredMapCodes(w) == {w.maps[i].map_code : i \in DOMAIN w.maps}

\* What members type as the map code of a submission.
SubmitTexts == {<<"a", "o", "b", "1">>, <<"1", "A", "B", "0">>, <<"a", "b">>}

\* The store and the guild the workflows start from: users 7 and 12 are
\* cached, user 12 made the stored map 1AB0 and holds the map maker role.
WorkflowRows ==
    [c \in Colls |->
        IF c = "users"
        THEN <<[user_id |-> 7, nickname |-> <<"a", "B">>, flags |-> DEFAULT,
                is_creator |-> FALSE],
               [user_id |-> 12, nickname |-> <<"b", "*">>, flags |-> DEFAULT,
                is_creator |-> TRUE]>>
        ELSE IF c = "maps"
        THEN <<[map_code |-> <<"1", "A", "B", "0">>, user_ids |-> <<12>>,
                archived |-> FALSE]>>
        ELSE <<>>]

InitWorkflow ==
    /\ cache = setup(GenjiCache, WorkflowRows).cache
    /\ last = [op |-> "setup", coll |-> "all", raised |-> "None"]
    /\ tasks = [t \in FlowIds |-> Idle]
    /\ world = [NoWorld EXCEPT
                   !.maps = <<[map_code |-> <<"1", "A", "B", "0">>, creator |-> 12,
                               sid |-> 0]>>,
                   !.map_makers = {12}]

\* A workflow ended: its slot is free again and its outcome is recorded.
EndFlow(t, op, raised, inserted) ==
    /\ tasks' = [tasks EXCEPT ![t] = Idle]
    /\ last' = [op |-> op, coll |-> "maps", raised |-> raised, sid |-> tasks[t].sid,
                user |-> tasks[t].user, creator |-> tasks[t].creator,
                map_code |-> tasks[t].map_code, mod |-> tasks[t].mod,
                inserted |-> inserted]

\* The flow moves on to its next suspension point.
Goto(t, pc) == tasks' = [tasks EXCEPT ![t].pc = pc]

\* A member (or, with mod, a moderator on behalf of a creator) runs the submit
\* command: the parser applies MapCodeSubmitTransformer to the typed code. The
\* MapSubmission object of the command is known by its number, sid.
parse_submit(t) ==
    \E user \in UserIds, creator \in UserIds, mod \in BOOLEAN, value \in SubmitTexts :
        LET r == transform(value, StoredMapCodes(world))
        IN  /\ tasks[t] = Idle
            /\ Len(world.submitted) < MaxCommands
            /\ mod \/ creator = user
            /\ world' = [world EXCEPT !.submitted = Append(@, value)]
            /\ IF r.raised # "None"
               THEN /\ last' = [op |-> "transform", coll |-> "maps",
                                raised |-> r.raised, value |-> value,
                                existing |-> StoredMapCodes(world),
                                result |-> r.value]
                    /\ UNCHANGED tasks
               ELSE /\ tasks' = [tasks EXCEPT ![t] =
                                    [pc |-> "parsed", kind |-> "submit_map_",
                                     sid |-> Len(world.submitted) + 1, user |-> user,
                                     creator |-> creator, mod |-> mod,
                                     map_code |-> r.value, status_id |-> 0,
                                     thread_id |-> 0, message_id |-> 0]]
                    /\ UNCHANGED last
            /\ UNCHANGED cache

\* submit_map_ for the parsed command: the checks, then the detail view.
submit_map_start(t) ==
    /\ tasks[t].pc = "parsed"
    /\ LET r == submit_map_(MapSubmission(None),
                            _check_max_limit(world.playtest, tasks[t].user),
                            _check_weekly_limit({}, 0))
       IN  IF r.raised # "None" THEN EndFlow(t, "submit_map_", r.raised, FALSE)
           ELSE Goto(t, "details") /\ UNCHANGED last
    /\ UNCHANGED <<cache, world>>

\* ConfirmMapSubmission: the member has chosen map types, mechanics,
\* restrictions and difficulty and confirms; map_submission_first_step then
\* shows the summary, which reads the creator's cached nickname.
map_submission_first_step(t) ==
    /\ tasks[t].pc = "details"
    /\ IF find(cache.users, "user_id", tasks[t].creator) = None
       THEN EndFlow(t, "map_submission_first_step", "AttributeError", FALSE)
       ELSE Goto(t, "confirm") /\ UNCHANGED last
    /\ UNCHANGED <<cache, world>>

\* The member cancels one of the two confirmation views.
cancel_submission(t) ==
    /\ tasks[t].pc \in {"details", "confirm"}
    /\ EndFlow(t, "cancel", "None", FALSE)
    /\ UNCHANGED <<cache, world>>

\* ConfirmBaseView: the member confirms the summary and
\* map_submission_second_step starts, up to its first await.
confirm_submission(t) ==
    /\ tasks[t].pc = "confirm"
    /\ Goto(t, IF tasks[t].mod THEN "insert_all" ELSE "send_status")
    /\ UNCHANGED <<cache, last, world>>

\* The id Discord gives the next message of the guild.
NextMessageId(w) == Len(w.messages) + 1

\* `await channel.send(...)` / `await thread.send(...)`: the message exists.
Send(w, kind, sid) ==
    [w EXCEPT !.messages = Append(@, [id |-> NextMessageId(w), kind |-> kind,
                                      sid |-> sid])]

\* The end of map_submission_second_step: the creator's cached user is
\* flagged is_creator unless it already is.
SetIsCreator(c, creator) ==
    LET u == find(c.users, "user_id", creator)
    IN  IF u = None THEN [cache |-> c, raised |-> "AttributeError"]
        ELSE IF ~u.is_creator
        THEN [cache |-> WithUser(c, creator, update_is_creator(u, TRUE)),
              raised |-> "None"]
        ELSE [cache |-> c, raised |-> "None"]

\* `await get_channel(PLAYTEST).send("Total Votes: 0 / required", embed)`:
\* the status message, or the call raises.
second_step_send_status(t) ==
    /\ tasks[t].pc = "send_status"
    /\ \E ok \in BOOLEAN :
        IF ok
        THEN /\ world' = Send(world, "status", tasks[t].sid)
             /\ tasks' = [tasks EXCEPT ![t].pc = "create_thread",
                                       ![t].status_id = NextMessageId(world)]
             /\ UNCHANGED last
        ELSE /\ EndFlow(t, "map_submission_second_step", "HTTPException", FALSE)
             /\ UNCHANGED world
    /\ UNCHANGED cache

\* `await playtest_message.create_thread(...)`: a thread started from a
\* message carries the id of that message.
second_step_create_thread(t) ==
    /\ tasks[t].pc = "create_thread"
    /\ \E ok \in BOOLEAN :
        IF ok
        THEN /\ world' = [world EXCEPT !.threads =
                             Append(@, [id |-> tasks[t].status_id,
                                        sid |-> tasks[t].sid])]
             /\ tasks' = [tasks EXCEPT ![t].pc = "send_view",
                                       ![t].thread_id = tasks[t].status_id]
             /\ UNCHANGED last
        ELSE /\ EndFlow(t, "map_submission_second_step", "HTTPException", FALSE)
             /\ UNCHANGED world
    /\ UNCHANGED cache

\* `thread_msg = await thread.send(..., view=view, embed=embed)`
second_step_send_view(t) ==
    /\ tasks[t].pc = "send_view"
    /\ \E ok \in BOOLEAN :
        IF ok
        THEN /\ world' = Send(world, "thread_msg", tasks[t].sid)
             /\ tasks' = [tasks EXCEPT ![t].pc = "send_ping",
                                       ![t].message_id = NextMessageId(world)]
             /\ UNCHANGED last
        ELSE /\ EndFlow(t, "map_submission_second_step", "HTTPException", FALSE)
             /\ UNCHANGED world
    /\ UNCHANGED cache

\* `playtest_views[thread_msg.id] = view`, then `await thread.send(ping)`.
second_step_send_ping(t) ==
    /\ tasks[t].pc = "send_ping"
    /\ LET registered ==
               [world EXCEPT !.playtest_views =
                   {v \in @ : v.message_id # tasks[t].message_id}
                   \cup {[message_id |-> tasks[t].message_id, sid |-> tasks[t].sid]}]
       IN  \E ok \in BOOLEAN :
            IF ok
            THEN /\ world' = Send(registered, "ping", tasks[t].sid)
                 /\ Goto(t, "insert_playtest")
                 /\ UNCHANGED last
            ELSE /\ EndFlow(t, "map_submission_second_step", "HTTPException", FALSE)
                 /\ world' = registered
    /\ UNCHANGED cache

\* `await data.insert_playtest(itx, thread.id, thread_msg.id,
\* playtest_message.id)`: the author's row of the playtest table.
second_step_insert_playtest(t) ==
    /\ tasks[t].pc = "insert_playtest"
    /\ \E ok \in BOOLEAN :
        IF ok
        THEN /\ world' = [world EXCEPT !.playtest =
                             Append(@, [thread_id |-> tasks[t].thread_id,
                                        message_id |-> tasks[t].message_id,
                                        original_msg |-> tasks[t].status_id,
                                        map_code |-> tasks[t].map_code,
                                        user_id |-> tasks[t].user,
                                        is_author |-> TRUE, sid |-> tasks[t].sid])]
             /\ Goto(t, "insert_all")
             /\ UNCHANGED last
        ELSE /\ EndFlow(t, "map_submission_second_step", "PostgresError", FALSE)
             /\ UNCHANGED world
    /\ UNCHANGED cache

\* `await data.insert_all(itx, mod)`: the row of the maps table.
second_step_insert_all(t) ==
    /\ tasks[t].pc = "insert_all"
    /\ \E ok \in BOOLEAN :
        IF ok
        THEN /\ world' = [world EXCEPT !.maps =
                             Append(@, [map_code |-> tasks[t].map_code,
                                        creator |-> tasks[t].creator,
                                        sid |-> tasks[t].sid])]
             /\ Goto(t, "inserted")
             /\ UNCHANGED last
        ELSE /\ EndFlow(t, "map_submission_second_step", "PostgresError", FALSE)
             /\ UNCHANGED world
    /\ UNCHANGED cache

\* After the insert: cache.maps.add_one(MapData(...)), then the map maker
\* role for the submitting member (not mod) or the newsfeed event (mod); a
\* member who holds the role already goes on to the end without an await.
second_step_after_insert(t) ==
    /\ tasks[t].pc = "inserted"
    /\ LET r == add_one(cache.maps, "map_code",
                        MapData(tasks[t].map_code, <<tasks[t].creator>>, FALSE))
           c1 == [cache EXCEPT !.maps = r.values]
       IN  IF r.raised # "None"
           THEN /\ EndFlow(t, "map_submission_second_step", r.raised, TRUE)
                /\ UNCHANGED <<cache, world>>
           ELSE IF ~tasks[t].mod /\ tasks[t].user \in world.map_makers
           THEN LET s == SetIsCreator(c1, tasks[t].creator)
                IN  /\ cache' = s.cache
                    /\ EndFlow(t, "map_submission_second_step", s.raised, TRUE)
                    /\ UNCHANGED world
           ELSE \E ok \in BOOLEAN :
                    /\ cache' = c1
                    /\ IF ok
                       THEN /\ world' =
                                 IF tasks[t].mod
                                 THEN [world EXCEPT !.newsfeed =
                                          Append(@, [type |-> "new_map",
                                                     creator |-> tasks[t].creator,
                                                     sid |-> tasks[t].sid])]
                                 ELSE [world EXCEPT !.map_makers =
                                          @ \cup {tasks[t].user}]
                            /\ Goto(t, "set_creator")
                            /\ UNCHANGED last
                       ELSE /\ EndFlow(t, "map_submission_second_step",
                                       "HTTPException", TRUE)
                            /\ UNCHANGED world

\* After add_roles / new_map_newsfeed: update_is_creator(True).
second_step_set_creator(t) ==
    /\ tasks[t].pc = "set_creator"
    /\ LET s == SetIsCreator(cache, tasks[t].creator)
       IN  /\ cache' = s.cache
           /\ EndFlow(t, "map_submission_second_step", s.raised, TRUE)
    /\ UNCHANGED world

\* on_ready: the views a restarted process registers, one per row that
\* get_map_info returns, under the message_id of the row.
on_ready_views(playtest) ==
    {[message_id |-> playtest[i].message_id, sid |-> playtest[i].sid] :
        i \in {j \in DOMAIN playtest : playtest[j].is_author}}

NextWorkflow ==
    \/ \E t \in FlowIds : parse_submit(t)
    \/ \E t \in FlowIds : submit_map_start(t)
    \/ \E t \in FlowIds : map_submission_first_step(t)
    \/ \E t \in FlowIds : cancel_submission(t)
    \/ \E t \in FlowIds : confirm_submission(t)
    \/ \E t \in FlowIds : second_step_send_status(t)
    \/ \E t \in FlowIds : second_step_create_thread(t)
    \/ \E t \in FlowIds : second_step_send_view(t)
    \/ \E t \in FlowIds : second_step_send_ping(t)
    \/ \E t \in FlowIds : second_step_insert_playtest(t)
    \/ \E t \in FlowIds : second_step_insert_all(t)
    \/ \E t \in FlowIds : second_step_after_insert(t)
    \/ \E t \in FlowIds : second_step_set_creator(t)

\* The legacy map submission workflow, run by up to MaxFlows members at once.
SpecWorkflow == InitWorkflow /\ [][NextWorkflow]_vars

\* ----------------------------------------------------------- change requests
\* Largest number of change-request commands run.
MaxRequests == 2

\* ChangeRequestsCog._fetch_change_requests: the thread ids of the unresolved
\* rows of change_requests for map_code.
_fetch_change_requests(rows, map_code) ==
    {rows[i].thread_id :
        i \in {j \in DOMAIN rows : rows[j].map_code = map_code /\ ~rows[j].resolved}}

\* DuplicatedChangeRequestView whose value starts True and is cleared by Cancel.
DuplicatedChangeRequestView_value_set(pressed) == pressed # "cancel_button"

\* DuplicatedChangeRequestView.value once view.wait() returned: False from
\* __init__, True only when the Continue button was pressed.
DuplicatedChangeRequestView_value(pressed) == pressed = "continue_button"

\* How view.wait() of the prompt may return: a button or the view's time-out.
PromptEnds == {"continue_button", "cancel_button", "timeout"}

InitChangeRequest ==
    /\ cache = GenjiCache
    /\ last = [op |-> "init", coll |-> "none", raised |-> "None"]
    /\ tasks = [t \in FlowIds |-> Idle]
    /\ world = [NoWorld EXCEPT
                   !.maps = <<[map_code |-> <<"A", "0", "B", "1">>, creator |-> 12,
                               sid |-> 0],
                              [map_code |-> <<"1", "A", "B", "0">>, creator |-> 12,
                               sid |-> 0]>>]

\* A command ended; its outcome is recorded.
EndRequest(t, op, opened) ==
    /\ tasks' = [tasks EXCEPT ![t] = Idle]
    /\ last' = [op |-> op, coll |-> "none", raised |-> "None", sid |-> tasks[t].sid,
                user |-> tasks[t].user, map_code |-> tasks[t].map_code,
                shown |-> tasks[t].shown, pressed |-> tasks[t].pressed,
                open |-> opened]

\* change_request up to its first view: the open requests of the map are
\* fetched; when there are some they are shown with the Continue / Cancel
\* prompt, else the confirmation view is shown at once. The map code was
\* accepted by MapCodeTransformer, so it is the code of a stored map.
change_request(t) ==
    \E user \in UserIds, map_code \in StoredMapCodes(world) :
        LET change_requests == _fetch_change_requests(world.change_requests, map_code)
        IN  /\ tasks[t] = Idle
            /\ Len(world.submitted) < MaxRequests
            /\ world' = [world EXCEPT !.submitted = Append(@, map_code)]
            /\ tasks' = [tasks EXCEPT ![t] =
                            [pc |-> IF change_requests # {} THEN "prompt"
                                    ELSE "confirmation",
                             kind |-> "change_request",
                             sid |-> Len(world.submitted) + 1, user |-> user,
                             map_code |-> map_code, shown |-> change_requests,
                             pressed |-> "none", details |-> FALSE]]
            /\ last' = [op |-> "change_request", coll |-> "none", raised |-> "None",
                        sid |-> Len(world.submitted) + 1, map_code |-> map_code,
                        shown |-> change_requests,
                        prompted |-> change_requests # {},
                        open |-> change_requests]
            /\ UNCHANGED cache

\* `await view.wait()` of the prompt returns (Continue, Cancel or time-out):
\* `if not view.value: return`, else the confirmation view is shown.
change_request_after_prompt(t) ==
    \E pressed \in PromptEnds :
        /\ tasks[t].pc = "prompt"
        /\ IF DuplicatedChangeRequestView_value(pressed)
           THEN /\ tasks' = [tasks EXCEPT ![t].pc = "confirmation",
                                          ![t].pressed = pressed]
                /\ UNCHANGED <<last, world>>
           ELSE /\ EndRequest(t, pressed, {})
                /\ world' = [world EXCEPT !.declined = @ \cup {tasks[t].sid}]
        /\ UNCHANGED cache

\* ChangeRequestConfirmationView.edit_details_button with the modal submitted:
\* the Submit button is enabled.
edit_details_button(t) ==
    /\ tasks[t].pc = "confirmation"
    /\ ~tasks[t].details
    /\ tasks' = [tasks EXCEPT ![t].details = TRUE]
    /\ UNCHANGED <<cache, last, world>>

\* ChangeRequestConfirmationView.cancel_button, or the view's time-out.
confirmation_cancel(t) ==
    /\ tasks[t].pc = "confirmation"
    /\ EndRequest(t, "confirmation_cancel", {})
    /\ UNCHANGED <<cache, world>>

\* ChangeRequestConfirmationView.submit_button, enabled once the details were
\* entered, up to `await channel.create_thread(...)`: the forum thread.
submit_button(t) ==
    /\ tasks[t].pc = "confirmation"
    /\ tasks[t].details
    /\ world' = [world EXCEPT !.threads =
                    Append(@, [id |-> Len(world.threads) + 1, sid |-> tasks[t].sid])]
    /\ Goto(t, "insert_change_request")
    /\ UNCHANGED <<cache, last>>

\* submit_button from `await change_request.insert_change_request(db)` on: the
\* row of the thread just created, unresolved.
insert_change_request(t) ==
    /\ tasks[t].pc = "insert_change_request"
    /\ LET thread_id ==
               (CHOOSE i \in DOMAIN world.threads :
                    world.threads[i].sid = tasks[t].sid)
       IN  world' = [world EXCEPT !.change_requests =
                        Append(@, [thread_id |-> thread_id,
                                   map_code |-> tasks[t].map_code,
                                   user_id |-> tasks[t].user, resolved |-> FALSE,
                                   alerted |-> FALSE, sid |-> tasks[t].sid])]
    /\ EndRequest(t, "submit_button",
                  _fetch_change_requests(world.change_requests, tasks[t].map_code))
    /\ UNCHANGED cache

\* The two roles ChangeRequestModCloseView.interaction_check looks for among
\* the roles of the clicking member.
StaffRoles == {"sensei", "moderator"}

\* interaction_check that lets every member through.
interaction_check_open(roles) == TRUE

\* ChangeRequestModCloseView.interaction_check
interaction_check(roles) == "sensei" \in roles \/ "moderator" \in roles

\* UPDATE change_requests SET resolved = TRUE WHERE thread_id = $1
SetResolved(rows, thread_id) ==
    [i \in DOMAIN rows |->
        IF rows[i].thread_id = thread_id THEN [rows[i] EXCEPT !.resolved = TRUE]
        ELSE rows[i]]

\* A member clicks the Close button in the thread of a request: the view
\* runs interaction_check and, when it passes, ChangeRequestModCloseView.callback,
\* which closes the thread and marks its rows resolved.
ChangeRequestModCloseView_callback ==
    \E i \in DOMAIN world.change_requests, roles \in SUBSET StaffRoles :
        LET thread_id == world.change_requests[i].thread_id
        IN  /\ world' = IF interaction_check(roles)
                        THEN [world EXCEPT !.change_requests =
                                 SetResolved(@, thread_id)]
                        ELSE world
            /\ last' = [op |-> "ModClose", coll |-> "none", raised |-> "None",
                        roles |-> roles, thread_id |-> thread_id]
            /\ UNCHANGED <<cache, tasks>>

NextChangeRequest ==
    \/ \E t \in FlowIds : change_request(t)
    \/ \E t \in FlowIds : change_request_after_prompt(t)
    \/ \E t \in FlowIds : edit_details_button(t)
    \/ \E t \in FlowIds : confirmation_cancel(t)
    \/ \E t \in FlowIds : submit_button(t)
    \/ \E t \in FlowIds : insert_change_request(t)
    \/ ChangeRequestModCloseView_callback

\* The change-request command, run by up to MaxFlows members at once.
SpecChangeRequest == InitChangeRequest /\ [][NextChangeRequest]_vars

\* -------------------------------------------------------- staleness sweep
\* Most runs of the hourly sweep, and the last day of the calendar.
MaxSweeps == 2
MaxDay == 16
\* INTERVAL '2 weeks', in days.
StaleDays == 14

\* The rows the sweep selects: created more than two weeks ago, not alerted,
\* not resolved.
StaleRows(rows, now) ==
    SelectSeq(rows, LAMBDA r : r.created_at < now - StaleDays
                               /\ ~r.alerted /\ ~r.resolved)

\* ChangeRequestsCog._set_alerted: UPDATE change_request SET alerted = TRUE
\* WHERE thread_id = $1. The statement names the table change_request, not
\* change_requests: when no such table exists it raises, when one exists the
\* rows of change_requests stay as they are.
_set_alerted(rows, thread_id, other_table) ==
    [rows |-> rows,
     raised |-> IF other_table THEN "None" ELSE "UndefinedTableError"]

\* The body of alert_stale_change_requests over the selected rows: a row whose
\* thread get_channel does not find is skipped, else the alert is sent to the
\* thread and _set_alerted is awaited; an exception ends the run.
RECURSIVE AlertRows(_, _, _, _, _)
AlertRows(selected, rows, alerts, threads, other_table) ==
    IF selected = <<>> THEN [rows |-> rows, alerts |-> alerts, raised |-> "None"]
    ELSE LET row == Head(selected)
         IN  IF row.thread_id \notin threads
             THEN AlertRows(Tail(selected), rows, alerts, threads, other_table)
             ELSE LET sent == [alerts EXCEPT ![row.thread_id] = @ + 1]
                      r == _set_alerted(rows, row.thread_id, other_table)
                  IN  IF r.raised # "None"
                      THEN [rows |-> r.rows, alerts |-> sent, raised |-> r.raised]
                      ELSE AlertRows(Tail(selected), r.rows, sent, threads,
                                     other_table)

\* The requests the sweep checks start from.
SweepThreadIds == {1, 2}
SweepRow(thread_id, created_at, resolved, alerted) ==
    [thread_id |-> thread_id, map_code |-> <<"A", "0", "B", "1">>, user_id |-> 7,
     resolved |-> resolved, alerted |-> alerted, created_at |-> created_at,
     sid |-> thread_id]

InitSweep ==
    /\ cache = GenjiCache
    /\ last = [op |-> "init", coll |-> "none", raised |-> "None"]
    /\ tasks = [t \in TaskIds |-> Idle]
    /\ \E c1 \in {0, 1}, r1, a1, r2 \in BOOLEAN, found \in SUBSET SweepThreadIds,
          other_table \in BOOLEAN :
        world = [NoWorld EXCEPT
                   !.change_requests = <<SweepRow(1, c1, r1, a1),
                                         SweepRow(2, 1, r2, FALSE)>>,
                   !.sweep = [now |-> StaleDays, runs |-> 0, alive |-> TRUE,
                              alerts |-> [th \in SweepThreadIds |-> 0],
                              found |-> found, other_table |-> other_table]]

\* A day passes.
Tick ==
    /\ world.sweep.now < MaxDay
    /\ world' = [world EXCEPT !.sweep.now = @ + 1]
    /\ UNCHANGED <<cache, last, tasks>>

\* One run of the tasks.loop alert_stale_change_requests; an exception that
\* leaves the body stops the loop.
alert_stale_change_requests ==
    /\ world.sweep.alive
    /\ world.sweep.runs < MaxSweeps
    /\ LET selected == StaleRows(world.change_requests, world.sweep.now)
           r == AlertRows(selected, world.change_requests, world.sweep.alerts,
                          world.sweep.found, world.sweep.other_table)
       IN  /\ world' = [world EXCEPT !.change_requests = r.rows,
                                     !.sweep.alerts = r.alerts,
                                     !.sweep.runs = @ + 1,
                                     !.sweep.alive = (r.raised = "None")]
           /\ last' = [op |-> "alert_stale_change_requests", coll |-> "none",
                       raised |-> r.raised, selected |-> selected,
                       before |-> world]
    /\ UNCHANGED <<cache, tasks>>

NextSweep ==
    \/ Tick
    \/ alert_stale_change_requests
    \/ ChangeRequestModCloseView_callback

\* The hourly staleness sweep over stored change requests, with moderators
\* closing threads in between.
SpecSweep == InitSweep /\ [][NextSweep]_vars

\* ------------------------------------------------------------ queue consumer
\* Most messages published to the genjiapi queue.
MaxPublished == 2

\* The values of the x-type header: the four known tags and an unknown one.
XTypes == {"playtest", "bulk_archive", "bulk_unarchive", "legacy", "other"}

\* The headers of a message; a header that is absent is the empty sequence,
\* one that is present the sequence of its value.
Headers ==
    [x_type : {<<>>} \cup {<<x>> : x \in XTypes},
     x_test_mode : {<<>>, <<TRUE>>, <<FALSE>>}]

\* message.headers.get("x-test-mode") is truthy.
TestMode(headers) == headers.x_test_mode = <<TRUE>>

\* The result of the body of _process_message: the handlers awaited, in
\* order, the exception that left the body ("None" when it returned), and
\* whether a playtest forum thread was created on the way.
Processed(handlers, raised, thread) ==
    [handlers |-> handlers, raised |-> raised, thread |-> thread]

\* PlaytestManager.add_playtest: without the guild or its forum it raises
\* AttributeError before anything is created; with them it creates the forum
\* thread and then calls PlaytestComponentsV2View(data), whose __init__ takes
\* thread_id and data by keyword only, so the call raises TypeError.
add_playtest(forum_ok) ==
    IF forum_ok THEN Processed(<<"add_playtest">>, "TypeError", TRUE)
    ELSE Processed(<<"add_playtest">>, "AttributeError", FALSE)

\* genji_dispatch.handle_event for the event built from a bulk message: it
\* returns or raises.
handle_event(handler_ok) ==
    Processed(<<"handle_event">>,
              IF handler_ok THEN "None" ELSE "HandlerError", FALSE)

\* _process_message that does not look at the x-test-mode header.
_process_message_live(headers, handler_ok) ==
    IF headers.x_type = <<>> THEN Processed(<<>>, "KeyError", FALSE)
    ELSE LET x_type == headers.x_type[1]
         IN  IF x_type = "playtest"
             THEN add_playtest(handler_ok)
             ELSE IF x_type \in {"bulk_archive", "bulk_unarchive"}
             THEN handle_event(handler_ok)
             ELSE IF x_type = "legacy"
             THEN Processed(<<>>, "UnboundLocalError", FALSE)
             ELSE Processed(<<>>, "None", FALSE)

\* _process_message that treats an unknown tag as an error.
_process_message_strict(headers, handler_ok) ==
    IF headers.x_type = <<>> THEN Processed(<<>>, "KeyError", FALSE)
    ELSE IF TestMode(headers) THEN Processed(<<>>, "None", FALSE)
    ELSE LET x_type == headers.x_type[1]
         IN  IF x_type = "playtest"
             THEN add_playtest(handler_ok)
             ELSE IF x_type \in {"bulk_archive", "bulk_unarchive"}
             THEN handle_event(handler_ok)
             ELSE IF x_type = "legacy"
             THEN Processed(<<>>, "UnboundLocalError", FALSE)
             ELSE Processed(<<>>, "ValueError", FALSE)

\* The body of Rabbit._process_message inside `async with message.process()`:
\* headers["x-type"] is read first, a truthy x-test-mode returns, "playtest"
\* awaits add_playtest and returns, the bulk tags bind _data, "legacy" binds
\* nothing, any other tag returns; then NewsfeedEvent(x_type, _data) is built
\* and handle_event awaited. handler_ok tells whether what the awaited handler
\* relies on (the guild's forum, the dispatcher) is there.
_process_message_body(headers, handler_ok) ==
    IF headers.x_type = <<>> THEN Processed(<<>>, "KeyError", FALSE)
    ELSE IF TestMode(headers) THEN Processed(<<>>, "None", FALSE)
    ELSE LET x_type == headers.x_type[1]
         IN  IF x_type = "playtest"
             THEN add_playtest(handler_ok)
             ELSE IF x_type \in {"bulk_archive", "bulk_unarchive"}
             THEN handle_event(handler_ok)
             ELSE IF x_type = "legacy"
             THEN Processed(<<>>, "UnboundLocalError", FALSE)
             ELSE Processed(<<>>, "None", FALSE)

\* message.process() with its defaults (requeue=False): the message is acked
\* when the body returns and rejected without requeue when it raises.
process(raised) == IF raised = "None" THEN "ack" ELSE "reject"

\* The consumer and its queue before anything was published.
NoRabbit ==
    [queue |-> <<>>, published |-> 0, acked |-> {}, rejected |-> {},
     handled |-> <<>>]

InitRabbit ==
    /\ cache = GenjiCache
    /\ last = [op |-> "init", coll |-> "none", raised |-> "None"]
    /\ tasks = [t \in TaskIds |-> Idle]
    /\ world = [NoWorld EXCEPT !.rabbit = NoRabbit]

\* The API publishes a message to the durable queue genjiapi.
Publish ==
    \E headers \in Headers :
        /\ world.rabbit.published < MaxPublished
        /\ world' = [world EXCEPT
                        !.rabbit.published = @ + 1,
                        !.rabbit.queue =
                            Append(@, [id |-> world.rabbit.published + 1,
                                       headers |-> headers])]
        /\ UNCHANGED <<cache, last, tasks>>

\* Rabbit._process_message for the message at the head of the queue (the
\* consumer has prefetch_count=1): the body, then the exit of message.process().
\* The forum thread add_playtest created stays when the body raises later.
_process_message ==
    \E handler_ok \in BOOLEAN :
        /\ world.rabbit.queue # <<>>
        /\ LET message == Head(world.rabbit.queue)
               r == _process_message_body(message.headers, handler_ok)
               outcome == process(r.raised)
           IN  /\ world' = [world EXCEPT
                              !.threads =
                                  IF r.thread
                                  THEN Append(@, [id |-> Len(@) + 1,
                                                  sid |-> message.id])
                                  ELSE @,
                              !.rabbit.queue = Tail(@),
                              !.rabbit.acked =
                                  IF outcome = "ack" THEN @ \cup {message.id} ELSE @,
                              !.rabbit.rejected =
                                  IF outcome = "reject" THEN @ \cup {message.id}
                                  ELSE @,
                              !.rabbit.handled =
                                  @ \o [i \in DOMAIN r.handlers |->
                                           [handler |-> r.handlers[i],
                                            id |-> message.id]]]
               /\ last' = [op |-> "_process_message", coll |-> "none",
                           raised |-> r.raised, message |-> message,
                           handlers |-> r.handlers, outcome |-> outcome,
                           handler_ok |-> handler_ok, before |-> world]
        /\ UNCHANGED <<cache, tasks>>

NextRabbit ==
    \/ Publish
    \/ _process_message

\* The consumer of the genjiapi queue.
SpecRabbit == InitRabbit /\ [][NextRabbit]_vars

\* ------------------------------------------------------------ vote histogram
\* Votes are written in hundredths: 118 is the float 1.18, 1000 is 10.0.
\* Most votes of a histogram.
MaxVotes == 2

\* The single votes drawn reach this many hundredths below 0.0 and above 10.0.
GridMargin == 5

\* BUCKETS, in the order of the dict.
BUCKETS ==
    << [name |-> "Easy -", low |-> 0, high |-> 118],
       [name |-> "Easy", low |-> 118, high |-> 176],
       [name |-> "Easy +", low |-> 176, high |-> 235],
       [name |-> "Medium -", low |-> 235, high |-> 294],
       [name |-> "Medium", low |-> 294, high |-> 353],
       [name |-> "Medium +", low |-> 353, high |-> 412],
       [name |-> "Hard -", low |-> 412, high |-> 471],
       [name |-> "Hard", low |-> 471, high |-> 529],
       [name |-> "Hard +", low |-> 529, high |-> 588],
       [name |-> "Very Hard -", low |-> 588, high |-> 647],
       [name |-> "Very Hard", low |-> 647, high |-> 706],
       [name |-> "Very Hard +", low |-> 706, high |-> 765],
       [name |-> "Extreme -", low |-> 765, high |-> 824],
       [name |-> "Extreme", low |-> 824, high |-> 882],
       [name |-> "Extreme +", low |-> 882, high |-> 941],
       [name |-> "Hell", low |-> 941, high |-> 1000] >>

HELL_VALUE == 1000

\* A float as the quotient num / den of two integers; den = 0 is NaN, the
\* mean of no votes.
Float(num, den) == [num |-> num, den |-> den]

\* The condition of the three loops without the clause for HELL_VALUE.
InBucket_half_open(bucket, val) ==
    /\ val.den > 0
    /\ bucket.low * val.den <= val.num
    /\ val.num < bucket.high * val.den

\* The condition of the three loops with the bounds read as low < val <= high.
InBucket_upper_closed(bucket, val) ==
    /\ val.den > 0
    /\ bucket.low * val.den < val.num
    /\ val.num <= bucket.high * val.den

\* `low <= val < high or (bucket == "Hell" and val == HELL_VALUE)`; every
\* comparison with NaN is false.
InBucket(bucket, val) ==
    /\ val.den > 0
    /\ \/ /\ bucket.low * val.den <= val.num
          /\ val.num < bucket.high * val.den
       \/ /\ bucket.name = "Hell"
          /\ val.num = HELL_VALUE * val.den

\* The loop `for bucket, (low, high) in BUCKETS.items()` from the i-th bucket
\* on: the first bucket whose condition holds, else the value returned after
\* the loop.
RECURSIVE FirstBucket(_, _, _)
FirstBucket(i, val, default) ==
    IF i > Len(BUCKETS) THEN default
    ELSE IF InBucket(BUCKETS[i], val) THEN BUCKETS[i].name
    ELSE FirstBucket(i + 1, val, default)

_find_bucket_name(val) == FirstBucket(1, val, "Unknown Difficulty")

_assign_bucket(val) == FirstBucket(1, val, "")

_get_bucket_for_vote(val) == FirstBucket(1, val, "Unknown Difficulty")

RECURSIVE Sum(_)
Sum(votes) == IF votes = <<>> THEN 0 ELSE Head(votes) + Sum(Tail(votes))

\* The sum of the votes in place of their mean.
mean_total(votes) == Float(Sum(votes), IF votes = <<>> THEN 0 ELSE 1)

\* df_votes['vote'].mean()
mean(votes) == Float(Sum(votes), Len(votes))

\* The votes of more than one vote are drawn from: the bucket bounds, values
\* inside buckets, and values outside [0, 10].
PickedVotes == {-1, 0, 100, 118, 471, 500, 529, 900, 1000, 1001}

VoteLists ==
    {<<>>} \cup {<<v>> : v \in (0 - GridMargin)..(HELL_VALUE + GridMargin)}
        \cup UNION {[1..n -> PickedVotes] : n \in 2..MaxVotes}

\* A VoteHistogram after __init__: the bucket column is not there yet and no
\* chart was built.
NewHistogram(votes) ==
    [votes |-> votes, avg_vote |-> mean(votes), bucket |-> <<>>,
     prepared |-> FALSE, charted |-> FALSE, avg_bucket |-> "",
     avg_vote_str |-> ""]

\* VoteHistogram(votes) for any list of votes.
InitHistogram ==
    /\ cache = GenjiCache
    /\ last = [op |-> "init", coll |-> "none", raised |-> "None"]
    /\ tasks = [t \in TaskIds |-> Idle]
    /\ \E votes \in VoteLists :
           world = [NoWorld EXCEPT !.hist = <<NewHistogram(votes)>>]

\* VoteHistogram._prepare_data: the bucket column is _assign_bucket of every
\* vote.
_prepare_data ==
    /\ world.hist # <<>>
    /\ ~world.hist[1].prepared
    /\ world' = [world EXCEPT
                    !.hist[1].bucket =
                        [i \in DOMAIN world.hist[1].votes |->
                            _assign_bucket(Float(world.hist[1].votes[i], 1))],
                    !.hist[1].prepared = TRUE]
    /\ last' = [op |-> "_prepare_data", coll |-> "none", raised |-> "None"]
    /\ UNCHANGED <<cache, tasks>>

\* VoteHistogram.build_chart: the marker is put on _get_bucket_for_vote of
\* the average and the title names _find_bucket_name of the average.
build_chart ==
    /\ world.hist # <<>>
    /\ ~world.hist[1].charted
    /\ world' = [world EXCEPT
                    !.hist[1].avg_bucket =
                        _get_bucket_for_vote(world.hist[1].avg_vote),
                    !.hist[1].avg_vote_str =
                        _find_bucket_name(world.hist[1].avg_vote),
                    !.hist[1].charted = TRUE]
    /\ last' = [op |-> "build_chart", coll |-> "none", raised |-> "None"]
    /\ UNCHANGED <<cache, tasks>>

NextHistogram ==
    \/ _prepare_data
    \/ build_chart

\* A histogram of any votes, its bucket column and its chart.
SpecHistogram == InitHistogram /\ [][NextHistogram]_vars


\* ------------------------------------------------------ playtest thread menus
\* Most selections made in the menus of a playtest thread.
MaxSelections == 2

\* The labels of mod_only_options and of creator_only_options.
mod_only_options ==
    {"Force Accept", "Force Deny", "Approve Submission", "Start Process Over",
     "Remove Completions", "Remove Votes", "Toggle Finalize Button"}

creator_only_options == {"Request Map Change", "Request Map Deletion"}

\* The result of a menu callback: the message sent in response ("none" when
\* nothing is sent), the action performed ("none" when none is), and the
\* exception that left the callback.
MenuResult(response, action, raised) ==
    [response |-> response, action |-> action, raised |-> raised]

\* The names the module utils.constants defines that the menus look up.
utils_constants == {"STAFF"}

\* ModOnlySelectMenu.callback: get_role(constants.STAFF), the sensei role, then
\* get_role(constants.MOD); constants defines no MOD, so reading it raises
\* AttributeError before the check. Past the check every case of the match
\* is `...`.
ModOnlySelectMenu_callback(roles, value) ==
    IF "STAFF" \notin utils_constants THEN MenuResult("none", "none", "AttributeError")
    ELSE IF "MOD" \notin utils_constants THEN MenuResult("none", "none", "AttributeError")
    ELSE IF ~("moderator" \in roles \/ "sensei" \in roles)
    THEN MenuResult("You are not a mod or a sensei!", "none", "None")
    ELSE MenuResult("none", "none", "None")

\* CreatorOnlySelectMenu.callback: a user outside view.data.creator_ids gets
\* the denial; for a creator every case of the match is `...`.
CreatorOnlySelectMenu_callback(user, ids, value) ==
    IF user \notin ids
    THEN MenuResult("You are not the creator of this map!", "none", "None")
    ELSE MenuResult("none", "none", "None")

\* What a selection leaves in the world: the response, when one is sent.
Selected(w, r) ==
    [w EXCEPT !.menu.selections = @ + 1,
              !.menu.responses =
                  IF r.response = "none" THEN @ ELSE Append(@, r.response)]

InitMenus ==
    /\ cache = GenjiCache
    /\ last = [op |-> "init", coll |-> "none", raised |-> "None"]
    /\ tasks = [t \in TaskIds |-> Idle]
    /\ world = [NoWorld EXCEPT !.menu = [selections |-> 0, responses |-> <<>>]]

\* A member picks an option of the mod-only menu.
ModOnlySelect ==
    \E user \in UserIds, roles \in SUBSET StaffRoles, value \in mod_only_options :
        LET r == ModOnlySelectMenu_callback(roles, value)
        IN  /\ world.menu.selections < MaxSelections
            /\ world' = Selected(world, r)
            /\ last' = [op |-> "ModOnlySelectMenu", coll |-> "none",
                        raised |-> r.raised, user |-> user, roles |-> roles,
                        permitted |-> roles # {}, value |-> value,
                        response |-> r.response, action |-> r.action,
                        before |-> world]
            /\ UNCHANGED <<cache, tasks>>

\* A member picks an option of the creator-only menu of a map's thread.
CreatorOnlySelect ==
    \E user \in UserIds, ids \in SUBSET UserIds,
       value \in creator_only_options :
        LET r == CreatorOnlySelectMenu_callback(user, ids, value)
        IN  /\ world.menu.selections < MaxSelections
            /\ world' = Selected(world, r)
            /\ last' = [op |-> "CreatorOnlySelectMenu", coll |-> "none",
                        raised |-> r.raised, user |-> user, creators |-> ids,
                        permitted |-> user \in ids, value |-> value,
                        response |-> r.response, action |-> r.action,
                        before |-> world]
            /\ UNCHANGED <<cache, tasks>>

NextMenus ==
    \/ ModOnlySelect
    \/ CreatorOnlySelect

\* The two permission-checked menus of a playtest thread.
SpecMenus == InitMenus /\ [][NextMenus]_vars


\* ---------------------------------------------------------------- analytics
\* Most events logged to the analytics buffer.
MaxEvents == 3

\* Genji.log_analytics: the event is appended to analytics_buffer.
log_analytics(buffer, event) == Append(buffer, event)

\* The buffer after setup(bot), the table analytics, and the loop
\* send_info_to_db, started by AnalyticsTasks.__init__.
InitAnalytics ==
    /\ cache = GenjiCache
    /\ last = [op |-> "init", coll |-> "none", raised |-> "None"]
    /\ tasks = [t \in TaskIds |-> Idle]
    /\ world = [NoWorld EXCEPT
                   !.analytics = [analytics_buffer |-> <<>>, logged |-> 0,
                                  table |-> <<>>, pc |-> "sleeping",
                                  rows |-> <<>>]]

\* on_command / on_interaction for an application command: the event is
\* logged with its arguments. Events are numbered in the order they are logged.
on_interaction ==
    \E args \in SUBSET {"screenshot", "map_code"} :
        /\ world.analytics.logged < MaxEvents
        /\ world' = [world EXCEPT
                        !.analytics.logged = @ + 1,
                        !.analytics.analytics_buffer =
                            log_analytics(@, [id |-> world.analytics.logged + 1,
                                              args |-> args])]
        /\ last' = [op |-> "on_interaction", coll |-> "none", raised |-> "None"]
        /\ UNCHANGED <<cache, tasks>>

\* args.pop("screenshot") on the args of every buffered event.
PopScreenshot(buffer) ==
    [i \in DOMAIN buffer |->
        [buffer[i] EXCEPT !.args = @ \ {"screenshot"}]]

\* send_info_to_db up to `await self.bot.database.set_many(query, rows)`: the
\* rows are built from the buffer, whose args lose their screenshot; without
\* rows the iteration ends.
send_info_to_db ==
    /\ world.analytics.pc = "sleeping"
    /\ world' = [world EXCEPT
                    !.analytics.rows = PopScreenshot(world.analytics.analytics_buffer),
                    !.analytics.analytics_buffer = PopScreenshot(@),
                    !.analytics.pc =
                        IF world.analytics.analytics_buffer = <<>>
                        THEN "sleeping" ELSE "set_many"]
    /\ last' = [op |-> "send_info_to_db", coll |-> "none", raised |-> "None"]
    /\ UNCHANGED <<cache, tasks>>

\* set_many returned: the rows are in the table, and the resumed iteration
\* sets analytics_buffer to a new empty list.
send_info_to_db_written ==
    /\ world.analytics.pc = "set_many"
    /\ world' = [world EXCEPT
                    !.analytics.table = @ \o world.analytics.rows,
                    !.analytics.rows = <<>>,
                    !.analytics.analytics_buffer = <<>>,
                    !.analytics.pc = "sleeping"]
    /\ last' = [op |-> "send_info_to_db_written", coll |-> "none",
                raised |-> "None"]
    /\ UNCHANGED <<cache, tasks>>

\* set_many raised: nothing is written and the buffer is kept; the loop runs
\* the iteration again later or, for an error it does not retry, stops.
send_info_to_db_failed ==
    \E stops \in BOOLEAN :
        /\ world.analytics.pc = "set_many"
        /\ world' = [world EXCEPT
                        !.analytics.rows = <<>>,
                        !.analytics.pc = IF stops THEN "stopped" ELSE "sleeping"]
        /\ last' = [op |-> "send_info_to_db_failed", coll |-> "none",
                    raised |-> "PostgresError"]
        /\ UNCHANGED <<cache, tasks>>

NextAnalytics ==
    \/ on_interaction
    \/ send_info_to_db
    \/ send_info_to_db_written
    \/ send_info_to_db_failed

\* Event logging interleaved with the periodic flush.
SpecAnalytics == InitAnalytics /\ [][NextAnalytics]_vars


\* ------------------------------------------------------------------ restart
\* Most playtest records unresolved at a restart, and most times on_ready
\* fires after it.
MaxRecords == 2

MaxReady == 3

\* The unresolved playtest records a restarted process finds: the author's
\* rows of the playtest table, each with its own message.
RestartRecords ==
    UNION {[1..n -> {TRUE}] : n \in 0..MaxRecords}

RecordRow(i) ==
    [thread_id |-> 20 + i, message_id |-> 10 + i, original_msg |-> 30 + i,
     map_code |-> <<"A", "0", "B", "1">>, user_id |-> 7, is_author |-> TRUE,
     sid |-> i]

\* The loop over the queue without the try / except around each record: the
\* first record whose handler cannot be built ends the loop.
on_ready_built_until_failure(playtest, broken) ==
    {[message_id |-> playtest[i].message_id, sid |-> playtest[i].sid] :
        i \in {j \in DOMAIN playtest :
                  /\ playtest[j].is_author
                  /\ \A k \in 1..j : playtest[k].message_id \notin broken}}

\* The loop over the queue in on_ready: a record for which building the
\* MapSubmission or the PlaytestVoting view raises is skipped (`except
\* Exception: ...`, suppress(AttributeError)), every other record gets its
\* view.
on_ready_built(playtest, broken) ==
    {v \in on_ready_views(playtest) : v.message_id \notin broken}

\* playtest_views[x.message_id] = view for every view built.
Registered(playtest_views, built) ==
    {v \in playtest_views : \A b \in built : b.message_id # v.message_id}
        \cup built

\* The process has just started: nothing is registered and
\* persistent_views_added is False.
InitRestart ==
    /\ cache = GenjiCache
    /\ last = [op |-> "init", coll |-> "none", raised |-> "None"]
    /\ tasks = [t \in TaskIds |-> Idle]
    /\ \E records \in RestartRecords :
           world = [NoWorld EXCEPT
                       !.playtest = [i \in DOMAIN records |-> RecordRow(i)],
                       !.restart = [persistent_views_added |-> FALSE,
                                    fired |-> 0]]

\* BotEvents.on_ready. It may raise before the queue is read
\* (application_info, the verification rows, the role messages), or after
\* the loop over the queue (the polls); broken holds the message ids of the
\* records whose handler cannot be built this time.
on_ready ==
    \E raises \in {"never", "before the queue", "after the queue"},
       broken \in SUBSET {world.playtest[i].message_id : i \in DOMAIN world.playtest} :
        LET scanned == ~world.restart.persistent_views_added
                           /\ raises # "before the queue"
            built == on_ready_built(world.playtest, broken)
        IN  /\ world.restart.fired < MaxReady
            /\ world' = [world EXCEPT
                            !.restart.fired = @ + 1,
                            !.restart.persistent_views_added =
                                @ \/ (scanned /\ raises = "never"),
                            !.playtest_views =
                                IF scanned THEN Registered(@, built) ELSE @]
            /\ last' = [op |-> "on_ready", coll |-> "none",
                        raised |-> IF raises = "never"
                                      \/ (world.restart.persistent_views_added
                                             /\ raises = "after the queue")
                                   THEN "None" ELSE "Exception",
                        scanned |-> scanned, broken |-> broken]
            /\ UNCHANGED <<cache, tasks>>

NextRestart == on_ready

\* The views a restarted process registers.
SpecRestart == InitRestart /\ [][NextRestart]_vars


\* -------------------------------------------------------------- cache setup
\* Most calls of GenjiCache.setup on one cache.
MaxSetups == 2

\* The rows one call of setup is given: at most one row per collection.
SetupRows ==
    {[c \in Colls |->
         IF c = "users" THEN us ELSE IF c = "maps" THEN ms
         ELSE IF c = "tags" THEN ts ELSE <<>>] :
        us \in {<<>>} \cup {<<u>> : u \in UserRows},
        ms \in {<<>>} \cup {<<m>> : m \in MapRows},
        ts \in {<<>>} \cup {<<t>> : t \in StrRows}}

InitSetup ==
    /\ cache = GenjiCache
    /\ last = [op |-> "init", coll |-> "none", raised |-> "None"]
    /\ tasks = [t \in TaskIds |-> Idle]
    /\ world = [NoWorld EXCEPT !.setups = <<0>>]

\* One call of GenjiCache.setup with rows fetched from the store.
Setup ==
    \E rows \in SetupRows :
        LET r == setup(cache, rows)
        IN  /\ world.setups[1] < MaxSetups
            /\ world' = [world EXCEPT !.setups = <<@[1] + 1>>]
            /\ cache' = r.cache
            /\ last' = [op |-> "setup", coll |-> "all", raised |-> r.raised,
                        rows |-> rows, before |-> cache]
            /\ UNCHANGED tasks

NextSetup == Setup

\* GenjiCache.setup called on a cache, once or again.
SpecSetup == InitSetup /\ [][NextSetup]_vars


\* ------------------------------------------- change request confirmation
\* Most Edit Details modals opened from one confirmation view.
MaxModals == 3

\* What a requester may type into the modal's feedback field.
FeedbackTexts == {<<"x">>, <<"y">>}

\* ChangeRequestModal.__init__: a modal not yet submitted, whose feedback
\* field holds no text.
ChangeRequestModal == [submitted |-> FALSE, value |-> <<>>, waiting |-> TRUE,
                       handler |-> "waiting"]

\* The confirmation view as change_request shows it: no modal yet, Submit
\* disabled, the view listening.
InitConfirmation ==
    /\ cache = GenjiCache
    /\ last = [op |-> "init", coll |-> "none", raised |-> "None"]
    /\ tasks = [t \in TaskIds |-> Idle]
    /\ world = [NoWorld EXCEPT
                   !.confirm = [modals |-> <<>>, edit_details_modal |-> 0,
                                submit_disabled |-> TRUE, content |-> <<>>,
                                stopped |-> FALSE, submitted |-> <<>>]]

\* ChangeRequestConfirmationView.edit_details_button up to
\* `await self.edit_details_modal.wait()`: a new modal replaces the one the
\* view held and is sent to the requester.
edit_details_open ==
    /\ ~world.confirm.stopped
    /\ Len(world.confirm.modals) < MaxModals
    /\ world' = [world EXCEPT
                    !.confirm.modals = Append(@, ChangeRequestModal),
                    !.confirm.edit_details_modal = Len(world.confirm.modals) + 1]
    /\ last' = [op |-> "edit_details_open", coll |-> "none", raised |-> "None"]
    /\ UNCHANGED <<cache, tasks>>

\* ChangeRequestModal.on_submit: the requester submits the modal on the
\* screen, which is the one opened last; its wait() returns.
ChangeRequestModal_on_submit ==
    \E text \in FeedbackTexts :
        LET k == Len(world.confirm.modals)
        IN  /\ k > 0
            /\ world.confirm.modals[k].waiting
            /\ world' = [world EXCEPT
                            !.confirm.modals[k] =
                                [@ EXCEPT !.submitted = TRUE, !.value = text,
                                          !.waiting = FALSE],
                            !.confirm.submitted = Append(@, text)]
            /\ last' = [op |-> "on_submit", coll |-> "none", raised |-> "None",
                        text |-> text]
            /\ UNCHANGED <<cache, tasks>>

\* The modal is dismissed: nothing is sent, and its wait() returns when the
\* modal's time-out of 600 seconds passes.
ChangeRequestModal_timeout ==
    \E k \in DOMAIN world.confirm.modals :
        /\ world.confirm.modals[k].waiting
        /\ world' = [world EXCEPT !.confirm.modals[k].waiting = FALSE]
        /\ last' = [op |-> "modal_timeout", coll |-> "none", raised |-> "None"]
        /\ UNCHANGED <<cache, tasks>>

\* edit_details_button after wait() of its modal returned: it looks at the
\* modal the view holds now; when that one was submitted the Submit button
\* is enabled and the message shows its text.
edit_details_button_resumed ==
    \E k \in DOMAIN world.confirm.modals :
        LET held == world.confirm.modals[world.confirm.edit_details_modal]
        IN  /\ ~world.confirm.modals[k].waiting
            /\ world.confirm.modals[k].handler = "waiting"
            /\ world' = [world EXCEPT
                            !.confirm.modals[k].handler = "returned",
                            !.confirm.submit_disabled =
                                IF held.submitted THEN FALSE ELSE @,
                            !.confirm.content =
                                IF held.submitted THEN held.value ELSE @]
            /\ last' = [op |-> "edit_details_button", coll |-> "none",
                        raised |-> "None", enabled |-> held.submitted]
            /\ UNCHANGED <<cache, tasks>>

\* ChangeRequestConfirmationView.submit_button, pressed while the message
\* shows it enabled: the view stops and the thread and the row are created
\* with the feedback text of the modal the view holds.
confirmation_submit_button ==
    /\ ~world.confirm.stopped
    /\ ~world.confirm.submit_disabled
    /\ world' = [world EXCEPT !.confirm.stopped = TRUE]
    /\ last' = [op |-> "create_thread", coll |-> "none", raised |-> "None",
                content |-> world.confirm.modals[world.confirm.edit_details_modal].value,
                submitted |-> world.confirm.submitted]
    /\ UNCHANGED <<cache, tasks>>

\* ChangeRequestConfirmationView.cancel_button
confirmation_cancel_button ==
    /\ ~world.confirm.stopped
    /\ world' = [world EXCEPT !.confirm.stopped = TRUE]
    /\ last' = [op |-> "cancel_button", coll |-> "none", raised |-> "None"]
    /\ UNCHANGED <<cache, tasks>>

NextConfirmation ==
    \/ edit_details_open
    \/ ChangeRequestModal_on_submit
    \/ ChangeRequestModal_timeout
    \/ edit_details_button_resumed
    \/ confirmation_submit_button
    \/ confirmation_cancel_button

\* One confirmation view and the modals its requester opens from it.
SpecConfirmation == InitConfirmation /\ [][NextConfirmation]_vars


\* ------------------------------------------------- change request close
\* Tags of the forum, most presses of the Close button, and the number of
\* tags `applied_tags=tags[:5]` keeps.
MaxForumTags == 6
MaxCloses == 2
AppliedTagsKept == 5

\* forum.available_tags, by id; one of them is named "Resolved".
available_tags ==
    [i \in 1..MaxForumTags |-> [id |-> i, name |-> IF i = 1 THEN "Resolved" ELSE "Other"]]

\* next(item for item in forum.available_tags if item.name == "Resolved")
resolved_tag ==
    available_tags[CHOOSE i \in DOMAIN available_tags :
                       /\ available_tags[i].name = "Resolved"
                       /\ \A j \in 1..(i - 1) : available_tags[j].name # "Resolved"].id

\* The tags of a set, listed by ascending id.
RECURSIVE TagList(_)
TagList(s) ==
    IF s = {} THEN <<>>
    ELSE LET m == CHOOSE x \in s : \A y \in s : x <= y
         IN  <<m>> \o TagList(s \ {m})

\* tags[:5]
FirstTags(tags) ==
    SubSeq(tags, 1, IF Len(tags) < AppliedTagsKept THEN Len(tags) ELSE AppliedTagsKept)

\* The tags the callback sends with thread.edit: the Resolved tag is appended
\* when the thread lacks it, then the list is cut to its first five.
closing_tags(applied_tags) ==
    FirstTags(IF In(resolved_tag, applied_tags) THEN applied_tags
              ELSE Append(applied_tags, resolved_tag))

\* An open thread of the forum with at most five tags, and its unresolved
\* row of change_requests.
InitClose ==
    /\ cache = GenjiCache
    /\ last = [op |-> "init", coll |-> "none", raised |-> "None"]
    /\ tasks = [t \in TaskIds |-> Idle]
    /\ \E s \in SUBSET (1..MaxForumTags) :
           /\ Cardinality(s) <= AppliedTagsKept
           /\ world = [NoWorld EXCEPT
                          !.close = [applied_tags |-> TagList(s), archived |-> FALSE,
                                     locked |-> FALSE, resolved |-> FALSE,
                                     closes |-> 0]]

\* A member presses Close in the thread: interaction_check, then
\* ChangeRequestModCloseView.callback. thread.edit may fail, and then the
\* UPDATE is not reached.
ChangeRequestModCloseView_close ==
    \E roles \in SUBSET StaffRoles, edit_ok \in BOOLEAN :
        LET passed == interaction_check(roles)
            done == passed /\ edit_ok
        IN  /\ world.close.closes < MaxCloses
            /\ world' = [world EXCEPT
                            !.close.closes = @ + 1,
                            !.close.applied_tags =
                                IF done THEN closing_tags(@) ELSE @,
                            !.close.archived = IF done THEN TRUE ELSE @,
                            !.close.locked = IF done THEN TRUE ELSE @,
                            !.close.resolved = IF done THEN TRUE ELSE @]
            /\ last' = [op |-> "CR-ModClose", coll |-> "none",
                        raised |-> IF passed /\ ~edit_ok THEN "HTTPException"
                                   ELSE "None",
                        passed |-> passed, before |-> world.close]
            /\ UNCHANGED <<cache, tasks>>

NextClose == ChangeRequestModCloseView_close

\* The Close button of one change-request thread.
SpecClose == InitClose /\ [][NextClose]_vars


\* ------------------------------------------- change request permissions
\* Most button presses in one thread.
MaxClicks == 2

\* The members who may press a button of the thread, and the creators of the
\* map who are members of the guild.
Clickers == {100012, 1000123, 112007, 200001}
CreatorPool == {1000123, 200001}

\* Member.mention
mention(id_) == <<"<", "@">> \o str(id_) \o <<">">>

\* " ".join(mentions) over the ids of a set, by ascending id.
RECURSIVE JoinMentions(_)
JoinMentions(ids) ==
    IF ids = {} THEN <<>>
    ELSE LET m == CHOOSE x \in ids : \A y \in ids : x <= y
         IN  IF ids = {m} THEN mention(m)
             ELSE mention(m) \o <<" ">> \o JoinMentions(ids \ {m})

\* The text submit_button stores when no creator of the map is a member.
NotInServer ==
    <<"<", "@", "&", "1", "1", "2", "0", "0", "7", "6", "5", "5", "5", "2", "9", "3",
      "5", "6", "9", "0", "8", "1", ">", "\n", "-", "#", " ", "T", "h", "e", " ", "c",
      "r", "e", "a", "t", "o", "r", " ", "o", "f", " ", "t", "h", "i", "s", " ", "m",
      "a", "p", " ", "i", "s", " ", "n", "o", "t", " ", "i", "n", " ", "t", "h", "i",
      "s", " ", "s", "e", "r", "v", "e", "r", ".">>

\* submit_button: the creator_mentions stored with the request.
creator_mentions(ids) == IF JoinMentions(ids) = <<>> THEN NotInServer ELSE JoinMentions(ids)

\* _check_permission_for_change_request_button on the fetched value: `str(user_id)
\* in val`, a TypeError when no row matched and val is None.
_check_permission_for_change_request_button(user_id, val) ==
    IF val = <<None>> THEN "TypeError"
    ELSE IF Contains(val[1], str(user_id)) THEN "True" ELSE "False"

\* The three buttons of ChangeRequestView and the notice each posts.
ChangeRequestButtons == {"FCRC", "FCRD", "FCRA"}

\* A thread whose request was created mentioning some creators; the row of
\* the request is stored, or no row matches the button's thread and map.
InitPermission ==
    /\ cache = GenjiCache
    /\ last = [op |-> "init", coll |-> "none", raised |-> "None"]
    /\ tasks = [t \in TaskIds |-> Idle]
    /\ \E ids \in SUBSET CreatorPool, stored \in BOOLEAN :
           world = [NoWorld EXCEPT
                       !.perm = [mentioned |-> ids,
                                 val |-> IF stored THEN <<creator_mentions(ids)>>
                                         ELSE <<None>>,
                                 posts |-> <<>>, clicks |-> 0]]

\* The callback of a button of ChangeRequestView: the permission check, then
\* the notice in the thread or the denial.
ChangeRequestButton_callback ==
    \E user \in Clickers, button \in ChangeRequestButtons :
        LET permitted == _check_permission_for_change_request_button(user, world.perm.val)
        IN  /\ world.perm.clicks < MaxClicks
            /\ world' = [world EXCEPT
                            !.perm.clicks = @ + 1,
                            !.perm.posts =
                                IF permitted = "True"
                                THEN Append(@, [button |-> button, user |-> user])
                                ELSE @]
            /\ last' = [op |-> button, coll |-> "none",
                        raised |-> IF permitted = "TypeError" THEN "TypeError"
                                   ELSE "None",
                        user |-> user,
                        response |-> IF permitted = "False"
                                     THEN "You do not have permission to use this."
                                     ELSE IF permitted = "True" THEN "notice"
                                     ELSE "none",
                        posts |-> world.perm.posts]
            /\ UNCHANGED <<cache, tasks>>

NextPermission == ChangeRequestButton_callback

\* The buttons of one change-request thread.
SpecPermission == InitPermission /\ [][NextPermission]_vars


\* ------------------------------------------------------------ user flags
\* Most update_flag calls on one user.
MaxFlagCalls == 3

\* SettingFlags: VERIFICATION and PROMOTION from enum.auto(), NONE; DEFAULT is
\* their union.
VERIFICATION == 1
PROMOTION == 2
NONE == 0
SettingFlagsMembers == {VERIFICATION, PROMOTION, DEFAULT, NONE}

\* a ^ b for two ints of two bits.
BitXor(a, b) ==
    (((a % 2) + (b % 2)) % 2) + 2 * ((((a \div 2) % 2) + ((b \div 2) % 2)) % 2)

\* A SettingFlags member, and a plain int.
SettingFlags(value) == [type |-> "SettingFlags", value |-> value]
int(value) == [type |-> "int", value |-> value]

\* SettingFlags.get_new_flag: `self.value ^ value`, an int.
get_new_flag(self, value) == int(BitXor(self.value, value))

\* UserData.update_flag: get_new_flag is looked up on the flags the user
\* holds, which only a SettingFlags has.
update_flag(flags, flag) ==
    IF flags.type = "SettingFlags"
    THEN [flags |-> get_new_flag(flags, flag.value), raised |-> "None"]
    ELSE [flags |-> flags, raised |-> "AttributeError"]

\* A user loaded by GenjiCache.setup with flags=SettingFlags(x.flags).
InitFlags ==
    /\ cache = GenjiCache
    /\ last = [op |-> "init", coll |-> "none", raised |-> "None"]
    /\ tasks = [t \in TaskIds |-> Idle]
    /\ \E x \in SettingFlagsMembers :
           world = [NoWorld EXCEPT
                       !.flags = [flags |-> SettingFlags(x), calls |-> 0,
                                  previous |-> <<>>]]

\* One update_flag call on the user.
UpdateFlag ==
    \E flag \in SettingFlagsMembers :
        LET r == update_flag(world.flags.flags, SettingFlags(flag))
        IN  /\ world.flags.calls < MaxFlagCalls
            /\ world' = [world EXCEPT
                            !.flags.flags = r.flags,
                            !.flags.calls = @ + 1,
                            !.flags.previous =
                                <<[flag |-> flag, before |-> world.flags.flags]>>]
            /\ last' = [op |-> "update_flag", coll |-> "users", raised |-> r.raised,
                        flag |-> flag, before |-> world.flags.flags,
                        previous |-> world.flags.previous]
            /\ UNCHANGED <<cache, tasks>>

NextFlags == UpdateFlag

\* update_flag calls on one cached user.
SpecFlags == InitFlags /\ [][NextFlags]_vars

\* ------------------------------------------------------------------- claims
\* C1: in every cache collection no two entries have the same key, after any
\* sequence of add_one, add_many, remove_one, clear_all, update_map_code and
\* update_user_id.
C1_UniqueKeys ==
    \A coll \in Colls : \A i, j \in DOMAIN cache[coll] :
        i # j => getattr(cache[coll][i], KeyValue[coll])
                 # getattr(cache[coll][j], KeyValue[coll])

\* Some object of the last add call has a key the collection already held.
KeyPresent ==
    \E i \in DOMAIN last.objs :
        In(getattr(last.objs[i], KeyValue[last.coll]),
           keys(last.before[last.coll], KeyValue[last.coll]))

\* C2: add_one and add_many raise AlreadyExists whenever the key of a given
\* entry is already in the collection, and then the cache is as before the
\* call; otherwise every entry of the batch is appended.
C2_AddAtomic ==
    last.op \in {"add_one", "add_many"} =>
        /\ KeyPresent => last.raised = "AlreadyExists"
        /\ last.raised = "AlreadyExists" => cache = last.before
        /\ last.raised # "AlreadyExists" =>
              /\ last.raised = "None"
              /\ cache = [last.before EXCEPT ![last.coll] = @ \o last.objs]

\* A batch whose first object is new and whose second collides was refused.
C2_Witness ==
    /\ last.op = "add_many"
    /\ Len(last.objs) = 2
    /\ last.raised = "AlreadyExists"
    /\ ~In(getattr(last.objs[1], KeyValue[last.coll]),
           keys(last.before[last.coll], KeyValue[last.coll]))
    /\ In(getattr(last.objs[2], KeyValue[last.coll]),
          keys(last.before[last.coll], KeyValue[last.coll]))

\* C3: add_one(x) followed by find(key(x)) returns x, and after a successful
\* remove_one(key) a following find(key) returns not-found.
C3_RoundTrip ==
    /\ (last.op = "add_one" /\ last.raised = "None") =>
          find(cache[last.coll], KeyValue[last.coll],
               getattr(last.objs[1], KeyValue[last.coll])) = last.objs[1]
    /\ (last.op = "remove_one" /\ last.raised = "None") =>
          find(cache[last.coll], KeyValue[last.coll], last.key) = None

\* C4: remove_one(key) raises DoesNotExist and changes nothing when no entry
\* has the key; otherwise it removes one entry that has the key and no other.
C4_RemoveOne ==
    last.op = "remove_one" =>
        LET before == last.before[last.coll]
            kv == KeyValue[last.coll]
        IN  IF ~In(last.key, keys(before, kv))
            THEN last.raised = "DoesNotExist" /\ cache = last.before
            ELSE /\ last.raised = "None"
                 /\ \E i \in DOMAIN before :
                       /\ getattr(before[i], kv) = last.key
                       /\ cache = [last.before EXCEPT ![last.coll] = RemoveAt(before, i)]

\* An entry was removed from between others, which stayed.
C4_Witness ==
    /\ last.op = "remove_one"
    /\ last.raised = "None"
    /\ Len(last.before[last.coll]) = 2
    /\ Len(cache[last.coll]) = 1
    /\ getattr(cache[last.coll][1], KeyValue[last.coll]) # last.key

\* C7: the display choice of every cached entry agrees with its raw value:
\* name = nickname and value = str(user_id) for users, name = value = map_code
\* for maps, choice and option equal to value for the string entries.
C7_ChoiceInSync ==
    /\ \A i \in DOMAIN cache.users :
          /\ cache.users[i].choice.name = cache.users[i].nickname
          /\ cache.users[i].choice.value = str(cache.users[i].user_id)
    /\ \A i \in DOMAIN cache.maps :
          /\ cache.maps[i].choice.name = cache.maps[i].map_code
          /\ cache.maps[i].choice.value = cache.maps[i].map_code
    /\ \A coll \in StrColls : \A i \in DOMAIN cache[coll] :
          /\ cache[coll][i].choice = [name |-> cache[coll][i].value,
                                      value |-> cache[coll][i].value]
          /\ cache[coll][i].option = [label |-> cache[coll][i].value,
                                      value |-> cache[coll][i].value]

\* A user's nickname was replaced by one that needs escaping.
C7_Witness ==
    /\ last.op = "update_nickname"
    /\ cache.users[last.idx].user_id = 7
    /\ cache.users[last.idx].nickname = <<"b", "\\", "*">>

\* No id occurs twice in the list.
NoDuplicates(seq) == \A i, j \in DOMAIN seq : i # j => seq[i] # seq[j]

\* C5: the creator-id list of every MapData entry is non-empty and holds no
\* id twice, in every state reached through construction, add_creator,
\* remove_creator and the add_creator_ / remove_creator_ handlers.
C5_CreatorsNonEmptyDistinct ==
    \A i \in DOMAIN cache.maps :
        cache.maps[i].user_ids # <<>> /\ NoDuplicates(cache.maps[i].user_ids)

\* C6: add_creator with an id already listed raises AlreadyExists and
\* remove_creator with an id not listed raises DoesNotExist; both leave
\* user_ids (and the rest of the cache) unchanged.
C6_CreatorErrors ==
    /\ last.op = "add_creator" =>
          (In(last.user_id, last.before.maps[last.idx].user_ids) =>
              last.raised = "AlreadyExists" /\ cache = last.before)
    /\ last.op = "remove_creator" =>
          (~In(last.user_id, last.before.maps[last.idx].user_ids) =>
              last.raised = "DoesNotExist" /\ cache = last.before)

\* add_creator was called with an id the map already listed.
C6_Witness ==
    /\ last.op = "add_creator"
    /\ In(last.user_id, last.before.maps[last.idx].user_ids)
    /\ last.raised = "AlreadyExists"

\* C8: the reply of _autocomplete has at most 25 entries, whatever the list
\* of choices and the text, and for a non-empty text the display name of
\* every entry of the reply contains the text, case ignored.
C8_AutocompleteBounded ==
    last.op \in Surfaces =>
        /\ Len(last.response) <= 25
        /\ last.passed # <<>> =>
              \A i \in DOMAIN last.response :
                  Contains(casefold(last.response[i].name), casefold(last.passed))

\* A non-empty text matched more than 25 choices and the reply was cut to 25.
C8_Witness ==
    /\ last.op \in Surfaces
    /\ last.passed # <<>>
    /\ Cardinality({i \in DOMAIN last.choices :
           Contains(casefold(last.choices[i].name), casefold(last.passed))}) > 25
    /\ Len(last.response) = 25

\* The entries an autocomplete function draws from.
Backing(c, surface) ==
    IF surface = "creator_autocomplete" THEN _find_many(c.users, "is_creator", TRUE)
    ELSE IF surface = "users_autocomplete" THEN c.users
    ELSE IF surface = "map_codes_autocomplete" THEN c.maps
    ELSE IF surface = "map_name_autocomplete" THEN c.map_names
    ELSE IF surface = "map_type_autocomplete" THEN c.map_types
    ELSE IF surface = "map_mechanics_autocomplete" THEN c.map_mechanics
    ELSE IF surface = "map_restrictions_autocomplete" THEN c.map_restrictions
    ELSE c.tags

BackingKey(surface) ==
    IF surface \in {"creator_autocomplete", "users_autocomplete"} THEN "user_id"
    ELSE IF surface = "map_codes_autocomplete" THEN "map_code"
    ELSE "value"

\* C9: on every autocomplete surface an empty text is answered with the
\* choices of the first 25 entries in key order, and with the empty list when
\* the collection is empty.
C9_EmptyInputKeyOrder ==
    (last.op \in Surfaces /\ last.current = <<>>) =>
        last.response =
            Take(_choices(sorted(Backing(cache, last.op), BackingKey(last.op))), 25)

\* The medal times of the last submit attempt, when it has medals set: the
\* medals tuple of a MapSubmission, or the medal options of submit-playtest
\* when one of them was given.
MedalsSet ==
    IF last.op = "submit_map_" THEN last.data.medals # None
    ELSE last.op = "submit_playlist"
         /\ (last.data.gold # 0 \/ last.data.silver # 0 \/ last.data.bronze # 0)

LastMedals == IF last.op = "submit_map_" THEN last.data.medals ELSE last.data

\* C10: every submit attempt whose submission has medals set passes the medal
\* check when 0 < gold < silver < bronze and fails with InvalidMedals
\* otherwise.
C10_MedalRule ==
    MedalsSet =>
        (last.raised # "InvalidMedals"
            <=> (/\ 0 < LastMedals.gold
                 /\ LastMedals.gold < LastMedals.silver
                 /\ LastMedals.silver < LastMedals.bronze))

\* The medals of the last submit_map_ attempt pass the medal check.
MedalsPass ==
    \/ last.data.medals = None
    \/ /\ 0 < last.data.medals.gold
       /\ last.data.medals.gold < last.data.medals.silver
       /\ last.data.medals.silver < last.data.medals.bronze

\* The member's submission dates of the 7 days up to the command.
Trailing == {d \in last.dates : last.now - 7 <= d /\ d <= last.now}

WellFormedCode(code) ==
    /\ Len(code) \in 4..6
    /\ \A i \in DOMAIN code :
          code[i] \in {"A", "B", "O", "0", "1", "2", "3", "4", "5", "6", "7", "8", "9"}

\* The typed code upper-cased, its O replaced by 0, and trimmed.
Normalised(text) ==
    LET up == [i \in DOMAIN text |->
                  IF text[i] = "a" THEN "A" ELSE IF text[i] = "b" THEN "B"
                  ELSE IF text[i] \in {"o", "O"} THEN "0" ELSE text[i]]
        inner == {i \in DOMAIN up : up[i] \notin {" ", "\n"}}
    IN  IF inner = {} THEN <<>>
        ELSE SubSeq(up, CHOOSE i \in inner : \A j \in inner : i <= j,
                        CHOOSE i \in inner : \A j \in inner : i >= j)

\* C17: MapCodeSubmitTransformer.transform returns a code only when the typed
\* text, upper-cased, with O replaced by 0 and trimmed, is 4 to 6 characters
\* of A-Z/0-9 and not a stored map code; the code returned is that text, holds
\* no letter O and is left unchanged by a second cleaning; a malformed text
\* raises IncorrectCodeFormatError and a stored one MapExistsError.
C17_MapCodeTransform ==
    last.op = "transform" =>
        LET n == Normalised(last.value)
        IN  /\ last.raised = "None" <=> (WellFormedCode(n) /\ n \notin last.existing)
            /\ last.raised = "None" =>
                  /\ last.result = n
                  /\ \A i \in DOMAIN last.result : last.result[i] # "O"
                  /\ _clean_code(last.result) = last.result
            /\ ~WellFormedCode(n) => last.raised = "IncorrectCodeFormatError"
            /\ (WellFormedCode(n) /\ n \in last.existing) =>
                  last.raised = "MapExistsError"

\* A padded lower-case text with the letter o was turned into a code.
C17_Witness ==
    /\ last.op = "transform"
    /\ last.value = <<" ", "o", "A", "o", "A", " ">>
    /\ last.raised = "None"
    /\ last.result = <<"0", "A", "0", "A">>

\* map_submission_second_step returned normally for the submission last.sid.
SecondStepReturned ==
    last.op = "map_submission_second_step" /\ last.raised = "None"

\* The objects the workflow made for submission sid.
ThreadsOf(sid) == {i \in DOMAIN world.threads : world.threads[i].sid = sid}
ViewsOf(sid) == {v \in world.playtest_views : v.sid = sid}
PlaytestRowsOf(sid) == {i \in DOMAIN world.playtest : world.playtest[i].sid = sid}
MapRowsOf(sid) == {i \in DOMAIN world.maps : world.maps[i].sid = sid}
NewsOf(sid) == {i \in DOMAIN world.newsfeed : world.newsfeed[i].sid = sid}

\* C13: a confirmed submission processed with mod = True gets no playtest
\* thread and no voting handler, its row is inserted, its creator holds the
\* map maker role and a new-map event is emitted; with mod = False it gets a
\* playtest thread, a voting handler and a playtest row.
C13_ModFastPath ==
    SecondStepReturned =>
        IF last.mod
        THEN /\ ThreadsOf(last.sid) = {}
             /\ ViewsOf(last.sid) = {}
             /\ MapRowsOf(last.sid) # {}
             /\ last.creator \in world.map_makers
             /\ NewsOf(last.sid) # {}
        ELSE /\ ThreadsOf(last.sid) # {}
             /\ ViewsOf(last.sid) # {}
             /\ PlaytestRowsOf(last.sid) # {}

\* Every registered voting handler is keyed by the id of the status message
\* of its submission.
HandlerUnderStatusMessage ==
    \A v \in world.playtest_views :
        \E i \in DOMAIN world.messages :
            /\ world.messages[i].id = v.message_id
            /\ world.messages[i].kind = "status"
            /\ world.messages[i].sid = v.sid

\* The handler of a confirmed submission is registered under the key a
\* restart reattaches it by, and its playtest row is stored.
HandlerReattachable ==
    (SecondStepReturned /\ ~last.mod) =>
        /\ PlaytestRowsOf(last.sid) # {}
        /\ ViewsOf(last.sid) # {}
        /\ ViewsOf(last.sid) \subseteq on_ready_views(world.playtest)

\* Once the handler of a submission ended, whatever the outcome, no voting
\* handler is registered for it without a playtest row.
HandlerHasRow ==
    (last.op = "map_submission_second_step" /\ ~last.mod) =>
        (ViewsOf(last.sid) # {} => PlaytestRowsOf(last.sid) # {})

\* C14: when a submission without mod is confirmed, its voting handler is
\* registered under the id of the status message, its playtest row is
\* inserted, the key of the handler is the message id a restart reattaches it
\* by, and no handler stays registered for a submission without a playtest row.
C14_HandlerRegistration ==
    /\ HandlerUnderStatusMessage
    /\ HandlerReattachable
    /\ HandlerHasRow

\* cache.maps holds map_code with creator among its creators, and the cached
\* user of creator is flagged is_creator.
CacheInSync(map_code, creator) ==
    /\ \E i \in DOMAIN cache.maps :
           cache.maps[i].map_code = map_code /\ In(creator, cache.maps[i].user_ids)
    /\ \E i \in DOMAIN cache.users :
           cache.users[i].user_id = creator /\ cache.users[i].is_creator

\* C16: at every point after insert_all returned where
\* map_submission_second_step is suspended, has failed or has returned,
\* cache.maps holds the new code with its creator and the creator's cached
\* is_creator flag is true.
C16_CacheSynchronous ==
    /\ \A t \in FlowIds :
           tasks[t].pc = "set_creator" =>
               CacheInSync(tasks[t].map_code, tasks[t].creator)
    /\ (last.op = "map_submission_second_step" /\ last.inserted) =>
           CacheInSync(last.map_code, last.creator)

\* The map codes of the stored submissions: the rows of maps, and the
\* author rows of playtest.
PersistedCodes == [i \in DOMAIN world.maps |-> world.maps[i].map_code]
PlaytestCodes ==
    LET rows == SelectSeq(world.playtest, LAMBDA r : r.is_author)
    IN  [i \in DOMAIN rows |-> rows[i].map_code]

\* C18: under every interleaving of submit workflows no two stored
\* submissions and no two entries of cache.maps carry the same map code.
C18_UniqueMapCodes ==
    /\ NoDuplicates(PersistedCodes)
    /\ NoDuplicates(PlaytestCodes)
    /\ NoDuplicates(keys(cache.maps, "map_code"))

\* All four details of a MapModel were supplied.
AllFourSupplied(data) ==
    /\ data.category # <<>>
    /\ data.mechanics # <<>>
    /\ data.restrictions # <<>>
    /\ data.difficulty # <<>>

\* C15: the detail view of a submission is left only by Cancel, or by Submit
\* once map category, mechanics, restrictions and difficulty have all four
\* been supplied; nothing else, and no timeout, ends the step.
C15_DetailsBeforeSubmit ==
    [][\A t \in TaskIds :
          (tasks[t].pc = "view" /\ tasks'[t].pc # "view") =>
              \/ last'.op = "cancel"
              \/ last'.op = "submit" /\ AllFourSupplied(tasks[t].data)]_vars

\* C19: a change-request command for a map with an unresolved request shows
\* the open requests with the prompt; a thread and a row are created for it
\* only after Continue, and never after Cancel or a time-out of the prompt.
C19_ContinueBeforeThread ==
    /\ (last.op = "change_request" /\ last.open # {}) =>
           (last.prompted /\ last.shown = last.open)
    /\ \A t \in FlowIds :
           (tasks[t].pc \in {"confirmation", "insert_change_request"}
            /\ tasks[t].shown # {}) => tasks[t].pressed = "continue_button"
    /\ (last.op = "submit_button" /\ last.shown # {}) =>
           last.pressed = "continue_button"
    /\ \A i \in DOMAIN world.threads : world.threads[i].sid \notin world.declined
    /\ \A i \in DOMAIN world.change_requests :
           world.change_requests[i].sid \notin world.declined

\* A member was shown an open request, chose Continue, and the second request
\* was created; another member's prompt ended without a thread.
C19_Witness ==
    /\ last.op = "submit_button"
    /\ last.shown # {}
    /\ last.pressed = "continue_button"
    /\ Len(world.change_requests) = 2

\* C20: under every interleaving of change-request commands a request is
\* created while other unresolved requests for its map exist only when its
\* requester was shown those requests and chose Continue.
C20_NoSilentDuplicate ==
    last.op = "submit_button" =>
        /\ last.open \subseteq last.shown
        /\ last.open # {} => last.pressed = "continue_button"

\* C21: the resolved flag of a change request goes from false to true only
\* by the Close button clicked by a member with the sensei or the moderator
\* role; a click by another member changes nothing, and a flag that is true
\* stays true.
C21_ResolvedByStaffOnly ==
    [][/\ \A i \in DOMAIN world.change_requests :
              world'.change_requests[i].resolved # world.change_requests[i].resolved =>
                  /\ ~world.change_requests[i].resolved
                  /\ last'.op = "ModClose"
                  /\ last'.roles \cap {"sensei", "moderator"} # {}
                  /\ last'.thread_id = world.change_requests[i].thread_id
       /\ (last'.op = "ModClose" /\ last' # last
           /\ last'.roles \cap {"sensei", "moderator"} = {}) =>
              world' = world]_vars

\* A moderator closed the thread of one request while another request stayed
\* unresolved.
C21_Witness ==
    /\ last.op = "ModClose"
    /\ last.roles = {"moderator"}
    /\ \E i \in DOMAIN world.change_requests :
           /\ world.change_requests[i].thread_id = last.thread_id
           /\ world.change_requests[i].resolved
    /\ \E i \in DOMAIN world.change_requests : ~world.change_requests[i].resolved

\* C22: over any number of runs of the sweep, a run alerts every unresolved,
\* unflagged request older than 14 days once and flags it; no request is
\* alerted twice, and a flagged request is not alerted again.
C22_AlertedOnce ==
    /\ \A i \in DOMAIN world.change_requests :
           LET row == world.change_requests[i]
           IN  /\ world.sweep.alerts[row.thread_id] <= 1
               /\ world.sweep.alerts[row.thread_id] = 1 => row.alerted
    /\ last.op = "alert_stale_change_requests" =>
           \A i \in DOMAIN last.before.change_requests :
               LET old == last.before.change_requests[i]
                   sent == world.sweep.alerts[old.thread_id]
                          - last.before.sweep.alerts[old.thread_id]
               IN  IF old.created_at < last.before.sweep.now - 14
                      /\ ~old.alerted /\ ~old.resolved
                   THEN sent = 1 /\ world.change_requests[i].alerted
                   ELSE sent = 0

\* The x-type of the message processed last is tag.
LastTagIn(tags) ==
    /\ last.op = "_process_message"
    /\ last.message.headers.x_type # <<>>
    /\ last.message.headers.x_type[1] \in tags

\* C23: for a message tagged playtest, bulk_archive, bulk_unarchive or legacy
\* and not in test mode exactly one handler is dispatched, and the processing
\* ends without an error when the guild's forum and the dispatcher are there.
C23_OneHandlerPerKnownTag ==
    (LastTagIn({"playtest", "bulk_archive", "bulk_unarchive", "legacy"})
     /\ last.message.headers.x_test_mode # <<TRUE>>) =>
        /\ Len(last.handlers) = 1
        /\ last.handler_ok => last.raised = "None"

\* C24: a message with an unknown tag is dropped without error: no handler
\* runs, nothing is dispatched, nothing is raised, and the message is acked.
C24_UnknownTagDropped ==
    LastTagIn({"other"}) =>
        /\ last.handlers = <<>>
        /\ last.raised = "None"
        /\ last.outcome = "ack"
        /\ last.message.id \in world.rabbit.acked
        /\ world.rabbit.handled = last.before.rabbit.handled

\* A message tagged "other", not in test mode, was taken off the queue and
\* acked.
C24_Witness ==
    /\ LastTagIn({"other"})
    /\ last.message.headers.x_test_mode = <<>>
    /\ last.message.id \in world.rabbit.acked

\* C25: a message that carries the test-mode marker runs no handler and
\* leaves everything but the queue it is taken from unchanged, whatever its
\* tag and however many such messages were processed before.
C25_TestModeNoEffect ==
    (last.op = "_process_message" /\ last.message.headers.x_test_mode = <<TRUE>>) =>
        /\ last.handlers = <<>>
        /\ world.rabbit.handled = last.before.rabbit.handled
        /\ [world EXCEPT !.rabbit = NoRabbit]
               = [last.before EXCEPT !.rabbit = NoRabbit]
        /\ \A i \in DOMAIN world.rabbit.handled :
               world.rabbit.handled[i].id # last.message.id

\* Two test-mode messages with a known tag were processed, and no handler ran.
C25_Witness ==
    /\ last.op = "_process_message"
    /\ last.message.headers = [x_type |-> <<"playtest">>, x_test_mode |-> <<TRUE>>]
    /\ last.message.id = 2
    /\ world.rabbit.handled = <<>>
    /\ world.rabbit.acked = {1, 2}

\* C26: a message is acked only when its handling returned; a message whose
\* handling raised is neither acked nor discarded but delivered again.
C26_AckAfterSuccess ==
    last.op = "_process_message" =>
        /\ last.message.id \in world.rabbit.acked => last.raised = "None"
        /\ last.raised # "None" =>
               /\ last.message.id \notin world.rabbit.acked
               /\ last.message.id \notin world.rabbit.rejected
               /\ \E i \in DOMAIN world.rabbit.queue :
                      world.rabbit.queue[i].id = last.message.id

\* The names of the buckets.
BucketNames == {BUCKETS[b].name : b \in DOMAIN BUCKETS}

\* The float lies in [0, 10].
InRange(val) ==
    /\ val.den > 0
    /\ 0 <= val.num
    /\ val.num <= HELL_VALUE * val.den

\* The buckets of the table whose condition the float meets.
BucketsOf(val) == {b \in DOMAIN BUCKETS : InBucket(BUCKETS[b], val)}

\* C27: the table has 16 buckets, each starting where the one before ends,
\* the first at 0 and the last ending at 10, and every vote in [0, 10], 10.0
\* included, meets the condition of exactly one bucket, which _assign_bucket,
\* _get_bucket_for_vote and _find_bucket_name all return.
C27_BucketsPartition ==
    /\ Len(BUCKETS) = 16
    /\ BUCKETS[1].low = 0
    /\ BUCKETS[Len(BUCKETS)].high = 1000
    /\ \A b \in DOMAIN BUCKETS : BUCKETS[b].low < BUCKETS[b].high
    /\ \A b \in 1..(Len(BUCKETS) - 1) : BUCKETS[b + 1].low = BUCKETS[b].high
    /\ Cardinality(BucketNames) = Len(BUCKETS)
    /\ (world.hist # <<>> /\ world.hist[1].prepared) =>
           \A i \in DOMAIN world.hist[1].votes :
               LET val == Float(world.hist[1].votes[i], 1)
               IN  InRange(val) =>
                       /\ Cardinality(BucketsOf(val)) = 1
                       /\ \A b \in BucketsOf(val) :
                              world.hist[1].bucket[i] = BUCKETS[b].name
                       /\ _get_bucket_for_vote(val) = world.hist[1].bucket[i]
                       /\ _find_bucket_name(val) = world.hist[1].bucket[i]
    /\ (world.hist # <<>> /\ world.hist[1].charted
            /\ InRange(world.hist[1].avg_vote)) =>
           /\ Cardinality(BucketsOf(world.hist[1].avg_vote)) = 1
           /\ world.hist[1].avg_bucket \in BucketNames
           /\ world.hist[1].avg_vote_str = world.hist[1].avg_bucket

\* The votes 9.41 and 10.0 were both assigned to the last bucket.
C27_Witness ==
    /\ world.hist # <<>>
    /\ world.hist[1].prepared
    /\ world.hist[1].votes = <<1000>>
    /\ world.hist[1].bucket = <<"Hell">>
    /\ _assign_bucket(Float(941, 1)) = "Hell"

\* C28: the vote 0.0 is assigned to bucket 1, "Easy -", the vote 10.0 to
\* bucket 16, "Hell", and a vote equal to the bound between two buckets to the
\* upper of the two.
C28_BoundaryToUpperBucket ==
    (world.hist # <<>> /\ world.hist[1].prepared) =>
        \A i \in DOMAIN world.hist[1].votes :
            LET vote == world.hist[1].votes[i]
                bucket == world.hist[1].bucket[i]
            IN  /\ vote = 0 => bucket = "Easy -" /\ BUCKETS[1].name = "Easy -"
                /\ vote = 1000 => bucket = "Hell" /\ BUCKETS[16].name = "Hell"
                /\ \A b \in 1..(Len(BUCKETS) - 1) :
                       vote = BUCKETS[b].high => bucket = BUCKETS[b + 1].name

\* The votes 0.0 and 4.71 were assigned: the first to "Easy -", the second,
\* the bound between "Hard -" and "Hard", to "Hard".
C28_Witness ==
    /\ world.hist # <<>>
    /\ world.hist[1].prepared
    /\ world.hist[1].votes = <<0, 471>>
    /\ world.hist[1].bucket = <<"Easy -", "Hard">>

\* The average of a charted histogram is the arithmetic mean of its votes,
\* and the marker and the title carry the bucket the average falls in.
AverageInItsBucket ==
    (world.hist # <<>> /\ world.hist[1].charted /\ world.hist[1].votes # <<>>) =>
        LET h == world.hist[1]
        IN  /\ h.avg_vote.num * Len(h.votes) = Sum(h.votes) * h.avg_vote.den
            /\ InRange(h.avg_vote) =>
                   \E b \in DOMAIN BUCKETS :
                       /\ BUCKETS[b].low * h.avg_vote.den <= h.avg_vote.num
                       /\ \/ h.avg_vote.num < BUCKETS[b].high * h.avg_vote.den
                          \/ /\ b = Len(BUCKETS)
                             /\ h.avg_vote.num = BUCKETS[b].high * h.avg_vote.den
                       /\ h.avg_bucket = BUCKETS[b].name
                       /\ h.avg_vote_str = BUCKETS[b].name

\* The charted histogram of the votes [1.0, 9.0] has the average 5.0, shown
\* in the bucket of the given number.
MeanOfOneAndNineIn(b) ==
    (world.hist # <<>> /\ world.hist[1].charted
        /\ world.hist[1].votes = <<100, 900>>) =>
        /\ world.hist[1].avg_vote.num = 500 * world.hist[1].avg_vote.den
        /\ world.hist[1].avg_bucket = BUCKETS[b].name
        /\ world.hist[1].avg_vote_str = BUCKETS[b].name

\* C29 as stated: the average is the arithmetic mean of the votes and is
\* shown in the bucket it falls in; for the votes [1.0, 9.0] it is 5.0 and
\* falls in bucket 7.
C29_MeanInBucketSeven ==
    /\ AverageInItsBucket
    /\ MeanOfOneAndNineIn(7)

\* C29: the average is the arithmetic mean of the votes and is shown in the
\* bucket it falls in; for the votes [1.0, 9.0] it is 5.0 and falls in
\* bucket 8, "Hard", which spans 4.71 to 5.29.
C29_MeanInBucketEight ==
    /\ AverageInItsBucket
    /\ MeanOfOneAndNineIn(8)
    /\ BUCKETS[8] = [name |-> "Hard", low |-> 471, high |-> 529]

\* The chart of the votes [1.0, 9.0] was built and its marker is on "Hard".
C29_Witness ==
    /\ world.hist # <<>>
    /\ world.hist[1].charted
    /\ world.hist[1].votes = <<100, 900>>
    /\ world.hist[1].avg_bucket = "Hard"

\* C30: for a vote below 0 or above 10 the bucket assignment reports an
\* error, and the vote gets neither a bucket nor a placeholder name.
C30_OutOfRangeIsError ==
    (last.op = "_prepare_data"
        /\ \E i \in DOMAIN world.hist[1].votes :
               ~InRange(Float(world.hist[1].votes[i], 1))) =>
        /\ last.raised # "None"
        /\ \A i \in DOMAIN world.hist[1].votes :
               ~InRange(Float(world.hist[1].votes[i], 1)) =>
                   world.hist[1].bucket[i]
                       \notin BucketNames \cup {"", "Unknown Difficulty"}

\* The last selection was made by a user the menu does not permit, and it
\* ended with the denial, performed no action and changed nothing but the
\* responses sent.
DeniedWithoutEffect(op) ==
    (last.op = op /\ ~last.permitted) =>
        /\ last.raised = "None"
        /\ last.response # "none"
        /\ world.menu.responses = Append(last.before.menu.responses, last.response)
        /\ last.action = "none"
        /\ [world EXCEPT !.menu = <<>>] = [last.before EXCEPT !.menu = <<>>]

\* C31: a mod-only option chosen by a user who is neither mod nor sensei, and
\* a creator-only option chosen by a user outside the map's creator ids, ends
\* with a denial shown to the user, performs no action and changes no state.
C31_DeniedWithoutEffect ==
    /\ DeniedWithoutEffect("ModOnlySelectMenu")
    /\ DeniedWithoutEffect("CreatorOnlySelectMenu")

\* The creators the store holds for a map.
StoredCreators(map_code) ==
    {row.user_id : row \in {r \in world.map_creators : r.map_code = map_code}}

\* C32: once every add_creator_ / remove_creator_ handler has completed or
\* failed, whatever the interleaving of the handlers was, the creator list
\* of every cached map holds exactly the creators the store holds for it.
C32_CreatorsMatchStore ==
    (\A t \in DOMAIN tasks : tasks[t] = Idle) =>
        \A i \in DOMAIN cache.maps :
            {cache.maps[i].user_ids[j] : j \in DOMAIN cache.maps[i].user_ids}
                = StoredCreators(cache.maps[i].map_code)

\* How often the event occurs in the list.
Occurrences(seq, event) == Cardinality({i \in DOMAIN seq : seq[i].id = event})

\* C33: under any interleaving of logging with the flush, every event that
\* was logged is either still in the buffer, to be written by a later flush,
\* or was written to the table, and no event is in the table twice.
C33_FlushAtomic ==
    \A event \in 1..world.analytics.logged :
        /\ Occurrences(world.analytics.table, event) <= 1
        /\ Occurrences(world.analytics.table, event) = 0 =>
               Occurrences(world.analytics.analytics_buffer, event) = 1
        /\ (Occurrences(world.analytics.table, event) = 1
                /\ world.analytics.pc = "sleeping") =>
               Occurrences(world.analytics.analytics_buffer, event) = 0

\* The voting handlers registered under the message id.
ViewsUnder(message_id) ==
    {v \in world.playtest_views : v.message_id = message_id}

C35_SetupAbortsWhole ==
    (last.op = "setup" /\ last.raised = "AlreadyExists") => cache = last.before

\* C36: a change request is created only after an Edit Details modal was
\* submitted, and the content it is created with is the text of the modal
\* submitted most recently.
C36_ContentIsLatestSubmitted ==
    last.op = "create_thread" =>
        /\ last.submitted # <<>>
        /\ last.content = last.submitted[Len(last.submitted)]

\* C37: after a moderator closed a change-request thread it is archived and
\* locked, carries the Resolved tag, and its row is resolved; when editing
\* the thread failed the row is as it was.
C37_ClosedThreadResolved ==
    /\ (last.op = "CR-ModClose" /\ last.passed /\ last.raised = "None") =>
           /\ world.close.archived
           /\ world.close.locked
           /\ In(resolved_tag, world.close.applied_tags)
           /\ world.close.resolved
    /\ (last.op = "CR-ModClose" /\ last.raised # "None") =>
           world.close.resolved = last.before.resolved

\* C38: a button of a change request posts its notice only for a user who is
\* one of the creators mentioned when the request was created; every other
\* user gets the permission denial and nothing is posted.
C38_OnlyMentionedCreators ==
    last.op \in ChangeRequestButtons =>
        IF last.user \in world.perm.mentioned
        THEN world.perm.posts = Append(last.posts, [button |-> last.op, user |-> last.user])
        ELSE /\ world.perm.posts = last.posts
             /\ last.response = "You do not have permission to use this."

\* The ids some cached map lists among its creators.
ListedCreators(c) ==
    UNION {{c.maps[k].user_ids[j] : j \in DOMAIN c.maps[k].user_ids} :
               k \in DOMAIN c.maps}

\* C39: once every add_creator_ / remove_creator_ call has completed, a cached
\* user has is_creator exactly when some cached map lists the user's id, and
\* Users.creator_ids holds exactly those ids.
C39_IsCreatorMatchesMaps ==
    (\A t \in DOMAIN tasks : tasks[t] = Idle) =>
        /\ \A i \in DOMAIN cache.users :
               cache.users[i].is_creator <=>
                   cache.users[i].user_id \in ListedCreators(cache)
        /\ {creator_ids(cache.users)[i] : i \in DOMAIN creator_ids(cache.users)}
               = {cache.users[i].user_id : i \in DOMAIN cache.users}
                     \cap ListedCreators(cache)

\* C40: after any number of update_flag calls the user's flags are a
\* SettingFlags value, every call succeeds, and two calls in a row with the
\* same flag leave the flags the user had before the first of them.
C40_UpdateFlagToggles ==
    /\ world.flags.flags.type = "SettingFlags"
    /\ last.op = "update_flag" => last.raised = "None"
    /\ (/\ last.op = "update_flag"
        /\ last.previous # <<>>
        /\ last.previous[1].flag = last.flag) =>
           world.flags.flags = last.previous[1].before

====
